---- MODULE Spec2Model ----
(***************************************************************************)
(* Model of the remex execution engine (package remex): Connect, Execute,  *)
(* the per-host task execCommands, notifyHandlers, RegisterHandler and     *)
(* Close, with the errgroup and the shared cancellable context.            *)
(*                                                                         *)
(* The repository holds three revisions of the engine file.  The model     *)
(* carries the revision as the variable rev, fixed at construction:        *)
(*   "R1"  src/remex.go              (configs are a slice, Execute() takes *)
(*                                    the commands from the config)        *)
(*   "RA"  src/unnamed/part_001:1-282   (Stage events, RemoteClient)       *)
(*   "RB"  src/unnamed/part_001:283-539 (Index events, plain errgroup)     *)
(* The three share execCommands, Close and the shape of Connect/Execute;   *)
(* every place where they differ is a branch on rev.                       *)
(***************************************************************************)
EXTENDS Integers, Sequences, FiniteSets, TLC

NumHosts == 2
MaxCmds == 2
MaxCalls == 3
MaxHandlers == 1
MaxCloses == 2
MaxOut == 2
NumRegs == 2
NumFns == 2
MaxList == 3
MaxName == 2
MaxRegCmds == 2
MaxText == 4
MaxArgText == 3
MaxBytes == 2
MaxChunk == 2
MaxReads == 3
MaxTransfers == 2
MaxQueries == 2
MaxDepth == 2
MaxMkdirs == 2
NumProcs == 2
MaxEvents == 2
MaxAppends == 1
MaxTplCmds == 2
MaxTplLen == 2
MaxCmdLists == 2

Hosts == 1..NumHosts
Regs == 1..NumRegs
Fns == 1..NumFns
Revisions == {"R1", "RA", "RB"}

VARIABLES
  rev,        \* revision of the engine file
  ctor,       \* constructor used: "NewWithConfig" or "NewWithContext"
  configs,    \* r.config / r.configs: the configured hosts
  cancelled,  \* r.ctx.Done() is closed
  sess,       \* r.clients: per host "none" (no entry), "open", "closed",
              \* "unconnected" (an SSHClient that never dialled)
  leaked,     \* per host: sessions dropped from r.clients without Close
  handlers,   \* len(r.handlers)
  emitted,    \* per host: results passed to notifyHandlers in the current call
  received,   \* per handler, per host: results the handler was called with
  attempted,  \* per host: ExecuteCommand calls made in the current call
  failedDial, \* per host: failed dials of the current call
  firstFail,  \* the first task error handed to the errgroup in the current call
  lastDial,   \* per host: outcome of the dial in the current Connect
  everOK,     \* hosts whose dial has succeeded (history)
  pc,         \* the caller: "idle", "connCheck", "connDial", "execWait", "panic"
  todo,       \* Connect: hosts the range loop has not visited yet
  cur,        \* Connect: host being dialled
  inExec,     \* Connect was called by Execute
  pendN,      \* Execute: length of the command list
  connErrs,   \* Connect: connectionErrors (hosts whose error was appended)
  ret,        \* what the caller's last call returned
  calls,      \* number of Connect/Execute calls made by the caller
  task,       \* per host: "none", "ready", "running", "ok", "err", "cancel"
  idx,        \* per host: index of the task's current command (1-based)
  ncmd,       \* per host: len(commands) of the task
  gErr,       \* errgroup: g.err, set once
  closePc,    \* the closer: "idle", "wait", "done"
  closeCalls, \* number of Close calls
  closeRet,   \* what the last Close returned
  leftOpen,   \* hosts with a session still open when the last Close returned
  closeTried, \* hosts whose session the last Close called Close on
  closeErrs,  \* closeErrors of the last Close: hosts whose session Close failed
  \* ExecRemoteCommand (one call)
  client,     \* the *ssh.Client argument: "nil" or "ok"
  sudo,       \* autoRootPassword && strings.HasPrefix(command, "sudo")
  ctxDone,    \* ctx.Done() is closed
  cpc,        \* the caller: "off", "entry", "sudo", "select", "recvOut", "done"
  gpc,        \* the goroutine: "none", "run", "sendErr", "sendOut", "end"
  captured,   \* bytes CombinedOutput has captured so far
  exitErr,    \* what CombinedOutput returned: "none", "nil", "exit"
  recvErr,    \* the error the caller received from errCh
  killSent,   \* session.Signal(ssh.SIGKILL) was called
  sessClosed, \* the deferred session.Close() has run
  cret,       \* what ExecRemoteCommand returned
  \* the handler list and its RWMutex (RegisterHandler, notifyHandlers)
  hlist,      \* r.handlers: the handler functions, in order
  muW,        \* r.mutex: the registrar holding the write lock, or 0
  muR,        \* r.mutex: TRUE while the notifying task holds the read lock
  rpc,        \* per registrar: "idle", "lock", "read", "write", "unlock"
  rarg,       \* per registrar: the handlers passed to its RegisterHandler call
  rtmp,       \* per registrar: the slice value append has read
  regLog,     \* the handlers passed so far, in the order the calls took the lock
  npc,        \* the notifying task: "idle", "rlock", "iter", "done"
  nidx,       \* the notifying task: index of the range loop
  nsnap,      \* r.handlers as it was when the notifying task took the read lock
  delivered,  \* the handlers called with the current result, in order
  \* the command registry (src/cmd.go)
  commands,   \* registry.commands: name -> command function
  rcCalls,    \* number of RegisterCommand calls made
  rcName,     \* the name passed to the last RegisterCommand
  rcFn,       \* the function passed to the last RegisterCommand
  rcRet,      \* what the last RegisterCommand returned
  rcPrev,     \* registry.commands as it was before the last RegisterCommand
  \* one call of SSHClient.ExecuteCommand / ExecRemexCommand (src/ssh.go)
  dEntry,     \* the function called: "ExecuteCommand", "ExecRemexCommand",
              \* "ExecRemoteCommand", or "none"
  dText,      \* the command text
  dpc,        \* "off", "route", "remex", "invoke", "wrap", "shell", "done"
  dRoute,     \* where ExecuteCommand sent the text: "none", "remex", "shell"
  dLooked,    \* the names GetCommand was called with
  dInvoked,   \* the command functions called, each with its arguments
  dShell,     \* the texts handed to ExecRemoteCommand
  dOut,       \* what the command function returned
  dRet,       \* what the call returned
  \* a reader made by NewInterruptibleReader(ctx, r) (src/cmd.go)
  irPc,       \* a Read call: "off", "idle", "check", "under", "ret"
  irCtx,      \* ctx.Done() is closed
  irSrc,      \* the bytes of the underlying source r
  irPos,      \* how many of them r has handed out
  irLen,      \* len(p) of the current Read
  irAtCall,   \* irCtx and irPos as they were when the current Read was called
  irUnder,    \* what r.Read returned to the current Read, if it was called
  irRet,      \* what the current Read returned, with the bytes put in p
  irReads,    \* number of Read calls made
  \* uploadFile / UploadMemoryFile / downloadFile (src/cmd.go)
  tOp,        \* the command running or last run: "none", "upload", "download"
  tpc,        \* "off", "idle", "read", "reading", "cleanup"
  tSrc,       \* the local file uploaded
  tRemote,    \* the file at the remote path, or Absent
  tLocal,     \* the file at the local path downloaded to, or Absent
  tCause,     \* why the copy failed: "none", "ctx", "ioerr", "werr"
  tRemoved,   \* the cleanup of the current command: "none", "ok", "failed"
  tLog,       \* the commands that have returned, each with its result
  tOps,       \* number of commands started
  \* GetConnectedHosts / GetClientByID (GetClientByName in RB)
  qCalls,     \* number of calls made
  qKind,      \* the last call: "none", "hosts", "byid"
  qArg,       \* the id passed to the last GetClientByID
  qRet,       \* what the last call returned
  \* createRemoteDirectory (src/cmd.go): the remote file system
  mDirs,      \* the directories of the remote file system (paths)
  mFiles,     \* the regular files of the remote file system (paths)
  mLog,       \* the calls that have returned: arguments, error, file system
  \* the accesses of the engine operations to r.clients and r.handlers
  aOp,        \* per goroutine: the engine operation it runs, or "none"
  aPc,        \* per goroutine: the step of the operation it is at
  aW,         \* r.mutex: the goroutine holding the write lock, or 0
  aR,         \* r.mutex: the goroutines holding the read lock
  \* the host tasks in notifyHandlers, their handlers, and r.mutex
  sPc,        \* per goroutine (0: a caller of RegisterHandler; h: the task of host h)
  sW,         \* r.mutex: the goroutine holding the write lock, or -1
  sR,         \* r.mutex: per goroutine, the read locks it holds
  sWait,      \* r.mutex: the goroutines waiting in Lock()
  sEv,        \* per host: results its task has passed to notifyHandlers
  sApp,       \* RegisterHandler calls made by goroutine 0
  \* the loop of Execute(commands) and the {{REMEX_ID}} placeholder
  xOrig,      \* the command list passed to Execute
  xCmds,      \* the variable commands of Execute
  xTodo,      \* the entries of r.clients the range loop has not visited yet
  xGo,        \* the hosts whose task was started and has not read commands yet
  xTask,      \* per host: the command list its execCommands was called with
  xRan,       \* the hosts whose execCommands was called
  \* Connect and Execute of src/remex.go over configs with names
  kBuilt,     \* how the configs were built: "NewRemoteConfig" or "literal"
  kConfigs,   \* r.config: the configs, in order
  kMap,       \* r.clients: whether it was made, and name -> address of the session
  kPc,        \* Execute(): "off", "idle", "connect", "spawn", "done", "panic"
  kI,         \* Connect: index of the range loop
  kDialled,   \* the addresses dialled with success
  kRun,       \* the tasks started: address of the session and command list
  kRet        \* what Execute returned

ctorVars == <<rev, ctor, configs>>
logVars == <<emitted, received, attempted, failedDial, firstFail>>
connVars == <<todo, cur, inExec, connErrs, lastDial>>
taskVars == <<task, idx, ncmd>>
closeVars == <<closePc, closeCalls, closeRet, leftOpen, closeTried, closeErrs>>

engineVars == <<ctorVars, logVars, connVars, taskVars, closeVars, cancelled,
                sess, leaked, handlers, everOK, pc, pendN, ret, calls, gErr>>
cmdVars == <<client, sudo, ctxDone, cpc, gpc, captured, exitErr, recvErr,
             killSent, sessClosed, cret>>

hVars == <<hlist, muW, muR, rpc, rarg, rtmp, regLog, npc, nidx, nsnap,
           delivered>>

rcVars == <<commands, rcCalls, rcName, rcFn, rcRet, rcPrev>>

dVars == <<dEntry, dText, dpc, dRoute, dLooked, dInvoked, dShell, dOut, dRet>>

irVars == <<irPc, irCtx, irSrc, irPos, irLen, irAtCall, irUnder, irRet, irReads>>

tVars == <<tOp, tpc, tSrc, tRemote, tLocal, tCause, tRemoved, tLog, tOps>>

qVars == <<qCalls, qKind, qArg, qRet>>

mVars == <<mDirs, mFiles, mLog>>

aVars == <<aOp, aPc, aW, aR>>

sVars == <<sPc, sW, sR, sWait, sEv, sApp>>

xVars == <<xOrig, xCmds, xTodo, xGo, xTask, xRan>>

kVars == <<kBuilt, kConfigs, kMap, kPc, kI, kDialled, kRun, kRet>>

compVars == <<cmdVars, hVars, rcVars, dVars, irVars, tVars, qVars, mVars, aVars, sVars, xVars, kVars>>
cmdOthers == <<engineVars, hVars, rcVars, dVars, irVars, tVars, qVars, mVars, aVars, sVars, xVars, kVars>>
hOthers == <<engineVars, cmdVars, rcVars, dVars, irVars, tVars, qVars, mVars, aVars, sVars, xVars, kVars>>
rcOthers == <<engineVars, cmdVars, hVars, dVars, irVars, tVars, qVars, mVars, aVars, sVars, xVars, kVars>>
dOthers == <<engineVars, hVars, rcVars, irVars, tVars, qVars, mVars, aVars, sVars, xVars, kVars>>
irOthers == <<engineVars, cmdVars, hVars, rcVars, dVars, qVars, mVars, aVars, sVars, xVars, kVars>>
qOthers == <<engineVars, cmdVars, hVars, rcVars, dVars, irVars, tVars, mVars, aVars, sVars, xVars, kVars>>

mOthers == <<engineVars, cmdVars, hVars, rcVars, dVars, irVars, tVars, qVars, aVars, sVars, xVars, kVars>>

aOthers == <<engineVars, cmdVars, hVars, rcVars, dVars, irVars, tVars, qVars, mVars, sVars, xVars, kVars>>

sOthers == <<engineVars, cmdVars, hVars, rcVars, dVars, irVars, tVars, qVars, mVars, aVars, xVars, kVars>>

xOthers == <<engineVars, cmdVars, hVars, rcVars, dVars, irVars, tVars, qVars, mVars, aVars, sVars, kVars>>

kOthers == <<engineVars, cmdVars, hVars, rcVars, dVars, irVars, tVars, qVars, mVars, aVars, sVars, xVars>>

vars == <<engineVars, cmdVars, hVars, rcVars, dVars, irVars, tVars, qVars, mVars, aVars, sVars, xVars, kVars>>

NoErr == [h |-> 0, err |-> "nil"]
NoRet == [op |-> "none", val |-> "none", errs |-> {}]
NoCmdRet == [via |-> "none", out |-> 0, err |-> "none", running |-> FALSE]

\* ExecResult: Stage (RA) / Index -1, 2k, 2k+1 (R1, RB), the command index
\* and the Error field.
Event(stage, k, err) == [stage |-> stage, k |-> k, err |-> err]

Clients == {h \in Hosts : sess[h] # "none"}

\* errgroup.WithContext: the group owns r.ctx and cancels it on the first task
\* error and when Wait returns.
GroupCtx == rev = "RA" \/ (rev = "R1" /\ ctor = "NewWithContext")

Panicked == pc = "panic"

Active == {h \in Hosts : task[h] \in {"ready", "running"}}

Min(S) == CHOOSE x \in S : \A y \in S : x <= y

NoLog == [h \in Hosts |-> <<>>]
NoneSet == [h \in Hosts |-> {}]
ResetDial == [h \in Hosts |-> "none"]
NoTasks == [h \in Hosts |-> "none"]

\* no ExecRemoteCommand call is modelled
CmdOff ==
  /\ client = "ok"
  /\ sudo = FALSE
  /\ ctxDone = FALSE
  /\ cpc = "off"
  /\ gpc = "none"
  /\ captured = 0
  /\ exitErr = "none"
  /\ recvErr = "none"
  /\ killSent = FALSE
  /\ sessClosed = FALSE
  /\ cret = NoCmdRet

\* A command name is a sequence of tokens: the namespace prefix "remex." or
\* another piece of text.
Prefix == "remex."
Tokens == {Prefix, "x", "upload"}
Names(n) == UNION {[1..k -> Tokens] : k \in 0..n}

\* var registry: the built-in commands
Builtin ==
  (<<Prefix, "upload">> :> "uploadFile") @@
  (<<Prefix, "download">> :> "downloadFile") @@
  (<<Prefix, "sh">> :> "shScript") @@
  (<<Prefix, "mkdir">> :> "createRemoteDirectory")

\* the command functions a caller passes: two functions, or nil
CmdFns == {"f", "g", "nil"}

\* the registry of the package, before any RegisterCommand
RegistryInit ==
  /\ commands = Builtin
  /\ rcCalls = 0
  /\ rcName = <<>>
  /\ rcFn = "nil"
  /\ rcRet = "none"
  /\ rcPrev = Builtin

\* no command function has returned
NoOutcome == [out |-> 0, err |-> "none"]

\* what a call that has not returned has returned
NoDispRet == [out |-> 0, err |-> "none", name |-> <<>>, cause |-> "none"]

\* no ExecuteCommand call is modelled
DispatchOff ==
  /\ dEntry = "none"
  /\ dText = <<>>
  /\ dpc = "off"
  /\ dRoute = "none"
  /\ dLooked = {}
  /\ dInvoked = <<>>
  /\ dShell = <<>>
  /\ dOut = NoOutcome
  /\ dRet = NoDispRet

\* a file that does not exist (a file's bytes are 0 and 1)
Absent == <<-1>>

\* r.Read was not called
NoRead == [n |-> 0, err |-> "none"]

\* no Read has returned
NoReadRet == [n |-> 0, err |-> "none", data |-> <<>>]

\* no reader is modelled
ReaderOff ==
  /\ irPc = "off"
  /\ irCtx = FALSE
  /\ irSrc = <<>>
  /\ irPos = 0
  /\ irLen = 0
  /\ irAtCall = [ctx |-> FALSE, pos |-> 0]
  /\ irUnder = NoRead
  /\ irRet = NoReadRet
  /\ irReads = 0

\* no transfer is modelled
TransferOff ==
  /\ tOp = "none"
  /\ tpc = "off"
  /\ tSrc = <<>>
  /\ tRemote = Absent
  /\ tLocal = Absent
  /\ tCause = "none"
  /\ tRemoved = "none"
  /\ tLog = <<>>
  /\ tOps = 0

\* no remote file system is modelled
MkdirOff ==
  /\ mDirs = {}
  /\ mFiles = {}
  /\ mLog = <<>>

\* no goroutine calling into the engine is modelled
RaceOff ==
  /\ aOp = <<>>
  /\ aPc = <<>>
  /\ aW = 0
  /\ aR = {}

\* no task notifying a handler is modelled
NotifyOff ==
  /\ sPc = <<>>
  /\ sW = -1
  /\ sR = <<>>
  /\ sWait = {}
  /\ sEv = <<>>
  /\ sApp = 0

\* no Execute with a command list is modelled
TemplateOff ==
  /\ xOrig = <<>>
  /\ xCmds = <<>>
  /\ xTodo = {}
  /\ xGo = {}
  /\ xTask = <<>>
  /\ xRan = {}

\* no engine over named configs is modelled
NamesOff ==
  /\ kBuilt = "none"
  /\ kConfigs = <<>>
  /\ kMap = [made |-> FALSE, m |-> <<>>]
  /\ kPc = "off"
  /\ kI = 1
  /\ kDialled = {}
  /\ kRun = {}
  /\ kRet = "none"

\* no registrar and no notifying task is modelled
HandlersOff ==
  /\ hlist = <<>>
  /\ muW = 0
  /\ muR = FALSE
  /\ rpc = [p \in Regs |-> "off"]
  /\ rarg = [p \in Regs |-> <<>>]
  /\ rtmp = [p \in Regs |-> <<>>]
  /\ regLog = <<>>
  /\ npc = "off"
  /\ nidx = 1
  /\ nsnap = <<>>
  /\ delivered = <<>>

\* no session: what a lookup that finds nothing returns
NoClient == [host |-> 0, state |-> "none"]

\* what a call returns: the snapshot of GetConnectedHosts, or the session
\* and the flag of GetClientByID
QueryRet(hosts, found, c) == [hosts |-> hosts, found |-> found, client |-> c]

\* the engine as constructed
EngineInit ==
  /\ qCalls = 0
  /\ qKind = "none"
  /\ qArg = 0
  /\ qRet = QueryRet({}, FALSE, NoClient)
  /\ rev \in Revisions
  /\ ctor \in {"NewWithConfig", "NewWithContext"}
  /\ (rev # "R1" => ctor = "NewWithContext")
  /\ configs \in {1..n : n \in 0..NumHosts}
  /\ cancelled = FALSE
  /\ sess = [h \in Hosts |-> "none"]
  /\ leaked = [h \in Hosts |-> 0]
  /\ handlers = 0
  /\ emitted = NoLog
  /\ received = [i \in 1..MaxHandlers |-> NoLog]
  /\ attempted = NoneSet
  /\ failedDial = NoneSet
  /\ firstFail = NoErr
  /\ lastDial = ResetDial
  /\ everOK = {}
  /\ pc = "idle"
  /\ todo = {}
  /\ cur = 0
  /\ inExec = FALSE
  /\ pendN = 0
  /\ connErrs = {}
  /\ ret = NoRet
  /\ calls = 0
  /\ task = NoTasks
  /\ idx = [h \in Hosts |-> 1]
  /\ ncmd = [h \in Hosts |-> 0]
  /\ gErr = NoErr
  /\ closePc = "idle"
  /\ closeCalls = 0
  /\ closeRet = "none"
  /\ leftOpen = {}
  /\ closeTried = {}
  /\ closeErrs = {}

Init ==
  /\ CmdOff /\ HandlersOff /\ RegistryInit /\ DispatchOff /\ ReaderOff /\ TransferOff
  /\ EngineInit
  /\ NamesOff
  /\ TemplateOff
  /\ NotifyOff
  /\ RaceOff
  /\ MkdirOff

\* A call of Connect or Execute begins: the logs and the locals of Connect are
\* those of the current call.
BeginCall ==
  /\ emitted' = NoLog
  /\ received' = [i \in 1..MaxHandlers |-> NoLog]
  /\ attempted' = NoneSet
  /\ failedDial' = NoneSet
  /\ firstFail' = NoErr
  /\ lastDial' = ResetDial
  /\ connErrs' = {}
  /\ todo' = configs
  /\ cur' = 0
  /\ ret' = NoRet

----------------------------------------------------------------------------
\* RegisterHandler: append under the write lock.
RegisterHandler ==
  /\ ~Panicked
  /\ handlers < MaxHandlers
  /\ handlers' = handlers + 1
  /\ UNCHANGED <<compVars, ctorVars, logVars, connVars, taskVars, closeVars, cancelled,
                 sess, leaked, everOK, pc, pendN, ret, calls, gErr>>

\* notifyHandlers of R1 and RB: every registered handler is called with the
\* result, in order, before notifyHandlers returns.
Deliver(rcv, h, ev) ==
  [i \in 1..MaxHandlers |->
     IF i <= handlers THEN [rcv[i] EXCEPT ![h] = Append(@, ev)] ELSE rcv[i]]

\* notifyHandlers of RA: starts a goroutine that ranges over r.results, a
\* channel nothing sends on; the result is dropped and no handler is called.
DeliverRA(rcv, h, ev) == rcv

notifyHandlers(h, ev) ==
  /\ emitted' = [emitted EXCEPT ![h] = Append(@, ev)]
  /\ received' = IF rev = "RA" THEN DeliverRA(received, h, ev)
                               ELSE Deliver(received, h, ev)

----------------------------------------------------------------------------
\* Connect

\* range over r.config (R1: a slice, in order) / r.configs (RA, RB: a map, in
\* any order)
NextHosts == IF rev = "R1" THEN {Min(todo)} ELSE todo

\* len(r.clients) == 0 after the loop
NoClients == Clients = {}

\* an Execute that starts a task per configured host
TaskHostsMut == configs

\* Execute's loop: one errGroup.Go per entry of r.clients
TaskHosts == Clients

Spawn(n) ==
  /\ task' = [h \in Hosts |-> IF h \in TaskHosts THEN "ready" ELSE "none"]
  /\ idx' = [h \in Hosts |-> 1]
  /\ ncmd' = [h \in Hosts |-> IF h \in TaskHosts THEN n ELSE 0]
  /\ pc' = "execWait"

\* Connect returns val; when Execute called it, Execute goes on from there.
ConnectFinish(val) ==
  IF inExec
    THEN IF val # "nil"
           THEN /\ pc' = "idle"
                /\ ret' = [op |-> "Execute",
                           val |-> IF val = "ctx" THEN "connfail-ctx" ELSE "connfail-noconn",
                           errs |-> connErrs]
                /\ UNCHANGED taskVars
           ELSE /\ Spawn(pendN)
                /\ UNCHANGED ret
    ELSE /\ pc' = "idle"
         /\ ret' = [op |-> "Connect", val |-> val,
                    errs |-> IF val = "noconn" THEN connErrs ELSE {}]
         /\ UNCHANGED taskVars

ConnectCall ==
  /\ pc = "idle"
  /\ calls < MaxCalls
  /\ calls' = calls + 1
  /\ pc' = "connCheck"
  /\ inExec' = FALSE
  /\ BeginCall
  /\ task' = NoTasks
  /\ idx' = [h \in Hosts |-> 1]
  /\ ncmd' = [h \in Hosts |-> 0]
  /\ pendN' = 0
  /\ UNCHANGED <<compVars, ctorVars, closeVars, cancelled, sess, leaked, handlers,
                 everOK, gErr>>

\* a Connect that never looks at the context
ConnCtxDoneMut == FALSE

\* case <-r.ctx.Done(): at the head of the loop of Connect
ConnCtxDone == cancelled

\* One turn of the loop head: the loop is over, or the context is done, or the
\* next host is taken.
ConnectCheck ==
  /\ pc = "connCheck"
  /\ IF todo = {}
       THEN /\ ConnectFinish(IF NoClients THEN "noconn" ELSE "nil")
            /\ UNCHANGED <<todo, cur>>
       ELSE IF ConnCtxDone
         THEN /\ ConnectFinish("ctx")
              /\ UNCHANGED <<todo, cur>>
         ELSE \E h \in NextHosts :
                /\ cur' = h
                /\ todo' = todo \ {h}
                /\ pc' = "connDial"
                /\ UNCHANGED <<ret, taskVars>>
  /\ UNCHANGED <<compVars, ctorVars, logVars, closeVars, cancelled, sess, leaked,
                 handlers, everOK, inExec, connErrs, lastDial, pendN, calls,
                 gErr>>

\* r.clients[id] = client.  R1 never makes the map: the assignment panics.
\* RA closes the session it replaces, RB drops it.
StoreSession(h) ==
  IF rev = "R1"
    THEN /\ pc' = "panic"
         /\ UNCHANGED <<sess, leaked>>
    ELSE /\ pc' = "connCheck"
         /\ sess' = [sess EXCEPT ![h] = "open"]
         /\ leaked' = IF rev = "RB" /\ sess[h] = "open"
                        THEN [leaked EXCEPT ![h] = @ + 1] ELSE leaked

\* The err != nil branch.  R1 and RB notify a result with Index -1 and the
\* error; RA evaluates client.ID() on the nil client it was returned: panic.
ReportDialError(h) ==
  IF rev = "RA"
    THEN /\ pc' = "panic"
         /\ UNCHANGED <<emitted, received>>
    ELSE /\ pc' = "connCheck"
         /\ notifyHandlers(h, Event("Connected", 0, "dial"))

ConnectDial ==
  /\ pc = "connDial"
  /\ \E ok \in BOOLEAN :
       IF ok
         THEN /\ everOK' = everOK \cup {cur}
              /\ lastDial' = [lastDial EXCEPT ![cur] = "ok"]
              /\ StoreSession(cur)
              /\ UNCHANGED <<connErrs, logVars>>
         ELSE /\ lastDial' = [lastDial EXCEPT ![cur] = "fail"]
              /\ failedDial' = [failedDial EXCEPT ![cur] = @ \cup {[nh |-> handlers]}]
              /\ connErrs' = connErrs \cup {cur}
              /\ ReportDialError(cur)
              /\ UNCHANGED <<sess, leaked, everOK, attempted, firstFail>>
  /\ UNCHANGED <<compVars, ctorVars, taskVars, closeVars, cancelled, handlers, todo,
                 cur, inExec, pendN, ret, calls, gErr>>

----------------------------------------------------------------------------
\* Execute

\* if len(r.clients) == 0 { r.Connect() }: R1 and RB; RA's Execute has none.
ConnectsFirst == rev \in {"R1", "RB"} /\ Clients = {}

ExecuteCall ==
  /\ pc = "idle"
  /\ calls < MaxCalls
  /\ calls' = calls + 1
  /\ BeginCall
  /\ \E n \in 0..MaxCmds :
       /\ pendN' = n
       /\ IF ConnectsFirst
            THEN /\ pc' = "connCheck"
                 /\ inExec' = TRUE
                 /\ task' = NoTasks
                 /\ idx' = [h \in Hosts |-> 1]
                 /\ ncmd' = [h \in Hosts |-> 0]
            ELSE /\ Spawn(n)
                 /\ inExec' = FALSE
  /\ UNCHANGED <<compVars, ctorVars, closeVars, cancelled, sess, leaked, handlers,
                 everOK, gErr>>

\* errgroup: the first non-nil task error is kept, and cancels the group's
\* context when the group has one.
GroupFail(h, kind) ==
  /\ gErr' = IF gErr = NoErr THEN [h |-> h, err |-> kind] ELSE gErr
  /\ firstFail' = IF firstFail = NoErr THEN [h |-> h, err |-> kind] ELSE firstFail
  /\ cancelled' = (cancelled \/ (GroupCtx /\ gErr = NoErr))

\* a task that goes on to the next command after an error
StopsOnErrorMut(out) == FALSE

\* if err != nil { return ... }
StopsOnError(out) == out # "nil"

\* a task that never looks at the context
TaskCtxDoneMut == FALSE

\* case <-r.ctx.Done(): at the head of the loop of execCommands
TaskCtxDone == cancelled

\* The loop head of execCommands: no command left, or the context is done, or
\* the Start result is notified and ExecuteCommand is called.
TaskBegin(h) ==
  /\ ~Panicked
  /\ task[h] = "ready"
  /\ IF idx[h] > ncmd[h]
       THEN /\ task' = [task EXCEPT ![h] = "ok"]
            /\ UNCHANGED <<logVars, gErr, cancelled>>
       ELSE IF TaskCtxDone
         THEN /\ task' = [task EXCEPT ![h] = "cancel"]
              /\ GroupFail(h, "ctx")
              /\ UNCHANGED <<emitted, received, attempted, failedDial>>
         ELSE /\ task' = [task EXCEPT ![h] = "running"]
              /\ notifyHandlers(h, Event("Start", idx[h], "nil"))
              /\ attempted' = [attempted EXCEPT ![h] =
                                 @ \cup {[k |-> idx[h], nh |-> handlers]}]
              /\ UNCHANGED <<failedDial, firstFail, gErr, cancelled>>
  /\ UNCHANGED <<compVars, ctorVars, connVars, closeVars, sess, leaked, handlers,
                 everOK, pc, pendN, ret, calls, idx, ncmd>>

\* a loop that stays on the same command
NextCommandMut(k) == k

\* the loop's step: the command after command k
NextCommand(k) == k + 1

\* ExecuteCommand returns: success, its own failure, or (once the context is
\* done) the context's error.  The Finish result is notified; an error ends
\* the task.
TaskFinish(h) ==
  /\ ~Panicked
  /\ task[h] = "running"
  /\ \E out \in {"nil", "fail"} \cup (IF cancelled THEN {"ctx"} ELSE {}) :
       /\ notifyHandlers(h, Event("Finish", idx[h], out))
       /\ IF StopsOnError(out)
            THEN /\ task' = [task EXCEPT ![h] = "err"]
                 /\ GroupFail(h, out)
                 /\ UNCHANGED idx
            ELSE /\ task' = [task EXCEPT ![h] = "ready"]
                 /\ idx' = [idx EXCEPT ![h] = NextCommand(@)]
                 /\ UNCHANGED <<firstFail, gErr, cancelled>>
  /\ UNCHANGED <<compVars, ctorVars, connVars, closeVars, sess, leaked, handlers,
                 attempted, failedDial, everOK, pc, pendN, ret, calls, ncmd>>

\* a Wait that returns with the first task that ends
AllTasksDoneMut == Active = {} \/ \E h \in Hosts : task[h] \in {"ok", "err", "cancel"}

\* errGroup.Wait() returns once every task of the group has returned.
AllTasksDone == Active = {}

\* Execute returns what Wait returned; a group with a context cancels it.
ExecuteReturn ==
  /\ pc = "execWait"
  /\ AllTasksDone
  /\ pc' = "idle"
  /\ ret' = [op |-> "Execute", val |-> gErr.err, errs |-> {}]
  /\ cancelled' = (cancelled \/ GroupCtx)
  /\ UNCHANGED <<compVars, ctorVars, logVars, connVars, taskVars, closeVars, sess,
                 leaked, handlers, everOK, pendN, calls, gErr>>

----------------------------------------------------------------------------
\* Close

\* r.cancelFunc(), then Wait
CloseCall ==
  /\ ~Panicked
  /\ closePc \in {"idle", "done"}
  /\ closeCalls < MaxCloses
  /\ closeCalls' = closeCalls + 1
  /\ closePc' = "wait"
  /\ cancelled' = TRUE
  /\ UNCHANGED <<compVars, ctorVars, logVars, connVars, taskVars, sess, leaked,
                 handlers, everOK, pc, pendN, ret, calls, gErr, closeRet,
                 leftOpen, closeTried, closeErrs>>

\* a Close that also fails on a session that never dialled
SSHClientCloseMut(s, fails) == IF fails THEN "err" ELSE "nil"

\* SSHClient.Close: nil when sc.Client is nil, else what ssh.Client.Close
\* returns
SSHClientClose(s, fails) ==
  IF s = "unconnected" THEN "nil" ELSE IF fails THEN "err" ELSE "nil"

\* a Close that swallows the sessions' errors
CloseResultMut(F) == "nil"

\* if len(closeErrors) > 0 { return the errors } ... return nil
CloseResult(F) == IF F # {} THEN "close" ELSE "nil"

\* if err := r.errGroup.Wait(); err != nil { return err }
ReturnsGroupError == gErr # NoErr

\* Wait has returned: the group's error is returned at once, otherwise every
\* entry of r.clients is closed.
CloseReturn ==
  /\ ~Panicked
  /\ closePc = "wait"
  /\ AllTasksDone
  /\ closePc' = "done"
  /\ IF ReturnsGroupError
       THEN /\ closeRet' = gErr.err
            /\ closeTried' = {}
            /\ closeErrs' = {}
            /\ UNCHANGED sess
       ELSE \E fails \in [Clients -> BOOLEAN] :
              LET F == {h \in Clients : SSHClientClose(sess[h], fails[h]) # "nil"}
              IN /\ closeRet' = CloseResult(F)
                 /\ closeTried' = Clients
                 /\ closeErrs' = F
                 /\ sess' = [h \in Hosts |->
                              IF sess[h] \in {"open", "closed"} THEN "closed" ELSE sess[h]]
  /\ leftOpen' = {h \in Hosts : sess'[h] = "open" \/ leaked[h] > 0}
  /\ UNCHANGED <<compVars, ctorVars, logVars, connVars, taskVars, cancelled, leaked,
                 handlers, everOK, pc, pendN, ret, calls, gErr, closeCalls>>

----------------------------------------------------------------------------
\* ExecRemoteCommand (src/ssh.go): the caller, the goroutine that runs
\* session.CombinedOutput, and the owner of the context.

CmdRet(via, out, err) ==
  [via |-> via, out |-> out, err |-> err, running |-> (gpc = "run")]

\* a cancellation branch that hands back what was captured
CancelResultMut == CmdRet("ctx", captured, "ctx")

\* return "", ctx.Err()
CancelResult == CmdRet("ctx", 0, "ctx")

\* a call with a *ssh.Client, a command and a context that may be done already
CmdInit ==
  /\ EngineInit
  /\ NamesOff
  /\ TemplateOff
  /\ NotifyOff
  /\ RaceOff
  /\ MkdirOff
  /\ HandlersOff
  /\ RegistryInit
  /\ DispatchOff
  /\ ReaderOff
  /\ TransferOff
  /\ rev = "R1" /\ ctor = "NewWithConfig" /\ configs = {}
  /\ client \in {"nil", "ok"}
  /\ sudo \in BOOLEAN
  /\ ctxDone \in BOOLEAN
  /\ cpc = "entry"
  /\ gpc = "none"
  /\ captured = 0
  /\ exitErr = "none"
  /\ recvErr = "none"
  /\ killSent = FALSE
  /\ sessClosed = FALSE
  /\ cret = NoCmdRet

\* a nil check that is skipped once the context is done
ClientIsNilMut == client = "nil" /\ ~ctxDone

\* if client == nil: the first statement of ExecRemoteCommand and of
\* ExecRemexCommand
ClientIsNil == client = "nil"

\* the nil check, client.NewSession(), and the go statement
CmdEnter ==
  /\ cpc = "entry"
  /\ IF ClientIsNil
       THEN /\ cpc' = "done"
            /\ cret' = CmdRet("nil", 0, "client-nil")
            /\ UNCHANGED <<gpc, sessClosed>>
       ELSE \E ok \in BOOLEAN :
              IF ok
                THEN /\ gpc' = "run"
                     /\ cpc' = IF sudo THEN "sudo" ELSE "select"
                     /\ UNCHANGED <<cret, sessClosed>>
                ELSE /\ cpc' = "done"
                     /\ cret' = CmdRet("session", 0, "session")
                     /\ UNCHANGED <<gpc, sessClosed>>
  /\ UNCHANGED <<cmdOthers, client, sudo, ctxDone, captured, exitErr, recvErr,
                 killSent>>

\* session.StdinPipe() and the password line; an error returns at once
CmdSudo ==
  /\ cpc = "sudo"
  /\ \E ok \in BOOLEAN :
       IF ok
         THEN /\ cpc' = "select"
              /\ UNCHANGED <<cret, sessClosed>>
         ELSE /\ cpc' = "done"
              /\ cret' = CmdRet("stdin", 0, "stdin")
              /\ sessClosed' = TRUE
  /\ UNCHANGED <<cmdOthers, client, sudo, ctxDone, gpc, captured, exitErr,
                 recvErr, killSent>>

\* the remote command writes to stdout/stderr
CmdOutput ==
  /\ gpc = "run"
  /\ captured < MaxOut
  /\ captured' = captured + 1
  /\ UNCHANGED <<cmdOthers, client, sudo, ctxDone, cpc, gpc, exitErr, recvErr,
                 killSent, sessClosed, cret>>

\* CombinedOutput returns (exit status zero or not; an error once the process
\* was killed or the session closed); the goroutine goes on to errCh <- err
CmdComplete ==
  /\ gpc = "run"
  /\ \E e \in (IF killSent \/ sessClosed THEN {"exit"} ELSE {"nil", "exit"}) :
       exitErr' = e
  /\ gpc' = "sendErr"
  /\ UNCHANGED <<cmdOthers, client, sudo, ctxDone, cpc, captured, recvErr,
                 killSent, sessClosed, cret>>

\* the owner of the context cancels it
CmdCancel ==
  /\ cpc \notin {"off", "done"}
  /\ ~ctxDone
  /\ ctxDone' = TRUE
  /\ UNCHANGED <<cmdOthers, client, sudo, cpc, gpc, captured, exitErr, recvErr,
                 killSent, sessClosed, cret>>

\* select, case <-ctx.Done(): kill the remote process, return "", ctx.Err()
CmdSelectCtx ==
  /\ cpc = "select"
  /\ ctxDone
  /\ killSent' = TRUE
  /\ cret' = CancelResult
  /\ cpc' = "done"
  /\ sessClosed' = TRUE
  /\ UNCHANGED <<cmdOthers, client, sudo, ctxDone, gpc, captured, exitErr,
                 recvErr>>

\* select, case err := <-errCh: the goroutine's send is matched
CmdSelectErr ==
  /\ cpc = "select"
  /\ gpc = "sendErr"
  /\ recvErr' = exitErr
  /\ gpc' = "sendOut"
  /\ cpc' = "recvOut"
  /\ UNCHANGED <<cmdOthers, client, sudo, ctxDone, captured, exitErr, killSent,
                 sessClosed, cret>>

\* a completion branch that drops the output of a failed command
CompletionResultMut ==
  [via |-> "errCh", out |-> IF recvErr = "nil" THEN captured ELSE 0,
   err |-> IF recvErr = "nil" THEN "nil" ELSE "wrapped-exit", running |-> FALSE]

\* if err != nil { return string(output), fmt.Errorf("command execution
\* failed: %w", err) }; return string(output), nil
CompletionResult ==
  [via |-> "errCh", out |-> captured,
   err |-> IF recvErr = "nil" THEN "nil" ELSE "wrapped-exit", running |-> FALSE]

\* output := <-outputCh, then the output with nil or the wrapped error
CmdRecvOut ==
  /\ cpc = "recvOut"
  /\ gpc = "sendOut"
  /\ gpc' = "end"
  /\ cpc' = "done"
  /\ cret' = CompletionResult
  /\ sessClosed' = TRUE
  /\ UNCHANGED <<cmdOthers, client, sudo, ctxDone, captured, exitErr, recvErr,
                 killSent>>

CmdNext ==
  \/ CmdEnter
  \/ CmdSudo
  \/ CmdOutput
  \/ CmdComplete
  \/ CmdCancel
  \/ CmdSelectCtx
  \/ CmdSelectErr
  \/ CmdRecvOut

SpecCmd == CmdInit /\ [][CmdNext]_vars

----------------------------------------------------------------------------
----------------------------------------------------------------------------
\* The handler list: RegisterHandler called by several goroutines at once
\* (TestConcurrentAccess) while a task notifies results.

\* the argument lists of a variadic call: up to n handler functions
Batches(n) == UNION {[1..k -> Fns] : k \in 0..n}

RECURSIVE PendingLen(_)
\* the handlers passed by the calls of S that wait for the lock
PendingLen(S) ==
  IF S = {} THEN 0
  ELSE LET p == CHOOSE x \in S : TRUE
       IN (IF rpc[p] = "lock" THEN Len(rarg[p]) ELSE 0) + PendingLen(S \ {p})

\* several registrars and one notifying task on a fresh engine
HandlersInit ==
  /\ EngineInit
  /\ NamesOff
  /\ TemplateOff
  /\ NotifyOff
  /\ RaceOff
  /\ MkdirOff
  /\ CmdOff
  /\ RegistryInit
  /\ DispatchOff
  /\ ReaderOff
  /\ TransferOff
  /\ ctor = "NewWithContext" /\ configs = {}
  /\ hlist = <<>>
  /\ muW = 0
  /\ muR = FALSE
  /\ rpc = [p \in Regs |-> "idle"]
  /\ rarg = [p \in Regs |-> <<>>]
  /\ rtmp = [p \in Regs |-> <<>>]
  /\ regLog = <<>>
  /\ npc = "idle"
  /\ nidx = 1
  /\ nsnap = <<>>
  /\ delivered = <<>>

\* a RegisterHandler that does not take the lock
CanLockMut(p) == TRUE

\* r.mutex.Lock() goes through: no writer and no reader holds the mutex
CanLock(p) == muW = 0 /\ ~muR

\* r.mutex.RLock() goes through: no writer holds the mutex
CanRLock == muW = 0

\* RegisterHandler(handlers...) is called and comes to r.mutex.Lock()
RegCall(p) ==
  /\ rpc[p] = "idle"
  /\ \E b \in Batches(MaxList - Len(regLog) - PendingLen(Regs)) :
       rarg' = [rarg EXCEPT ![p] = b]
  /\ rpc' = [rpc EXCEPT ![p] = "lock"]
  /\ UNCHANGED <<hOthers, hlist, muW, muR, rtmp, regLog, npc, nidx, nsnap,
                 delivered>>

RegLock(p) ==
  /\ rpc[p] = "lock"
  /\ CanLock(p)
  /\ muW' = p
  /\ regLog' = regLog \o rarg[p]
  /\ rpc' = [rpc EXCEPT ![p] = "read"]
  /\ UNCHANGED <<hOthers, hlist, muR, rarg, rtmp, npc, nidx, nsnap, delivered>>

\* append(r.handlers, handlers...): the slice is read ...
RegRead(p) ==
  /\ rpc[p] = "read"
  /\ rtmp' = [rtmp EXCEPT ![p] = hlist]
  /\ rpc' = [rpc EXCEPT ![p] = "write"]
  /\ UNCHANGED <<hOthers, hlist, muW, muR, rarg, regLog, npc, nidx, nsnap,
                 delivered>>

\* ... and r.handlers is assigned the result
RegWrite(p) ==
  /\ rpc[p] = "write"
  /\ hlist' = rtmp[p] \o rarg[p]
  /\ rpc' = [rpc EXCEPT ![p] = "unlock"]
  /\ UNCHANGED <<hOthers, muW, muR, rarg, rtmp, regLog, npc, nidx, nsnap,
                 delivered>>

\* defer r.mutex.Unlock(), and the call returns: its locals are gone
RegUnlock(p) ==
  /\ rpc[p] = "unlock"
  /\ muW' = IF muW = p THEN 0 ELSE muW
  /\ rpc' = [rpc EXCEPT ![p] = "idle"]
  /\ rarg' = [rarg EXCEPT ![p] = <<>>]
  /\ rtmp' = [rtmp EXCEPT ![p] = <<>>]
  /\ UNCHANGED <<hOthers, hlist, muR, regLog, npc, nidx, nsnap, delivered>>

\* a task calls notifyHandlers(result) and comes to r.mutex.RLock()
NotifyCall ==
  /\ npc \in {"idle", "done"}
  /\ npc' = "rlock"
  /\ nidx' = 1
  /\ nsnap' = <<>>
  /\ delivered' = <<>>
  /\ UNCHANGED <<hOthers, hlist, muW, muR, rpc, rarg, rtmp, regLog>>

NotifyRLock ==
  /\ npc = "rlock"
  /\ CanRLock
  /\ muR' = TRUE
  /\ nsnap' = hlist
  /\ npc' = "iter"
  /\ UNCHANGED <<hOthers, hlist, muW, rpc, rarg, rtmp, regLog, nidx, delivered>>

\* what the notifying task itself ranges over: r.handlers in R1 and RB; in RA
\* the loop is inside a goroutine that waits on r.results for ever, and the
\* task calls no handler
RangeOver(l) == IF rev = "RA" THEN <<>> ELSE l

\* handler(result): one handler is called and returns
NotifyStep ==
  /\ npc = "iter"
  /\ nidx <= Len(RangeOver(nsnap))
  /\ delivered' = Append(delivered, RangeOver(nsnap)[nidx])
  /\ nidx' = nidx + 1
  /\ UNCHANGED <<hOthers, hlist, muW, muR, rpc, rarg, rtmp, regLog, npc, nsnap>>

\* the loop is over: defer r.mutex.RUnlock(), and the task goes on
NotifyReturn ==
  /\ npc = "iter"
  /\ nidx > Len(RangeOver(nsnap))
  /\ muR' = FALSE
  /\ npc' = "done"
  /\ UNCHANGED <<hOthers, hlist, muW, rpc, rarg, rtmp, regLog, nidx, nsnap,
                 delivered>>

HandlersNext ==
  \/ \E p \in Regs : RegCall(p)
  \/ \E p \in Regs : RegLock(p)
  \/ \E p \in Regs : RegRead(p)
  \/ \E p \in Regs : RegWrite(p)
  \/ \E p \in Regs : RegUnlock(p)
  \/ NotifyCall
  \/ NotifyRLock
  \/ NotifyStep
  \/ NotifyReturn

SpecHandlers == HandlersInit /\ [][HandlersNext]_vars

----------------------------------------------------------------------------
\* The command registry (src/cmd.go)

\* strings.HasPrefix(name, "remex.")
HasPrefix(name) == Len(name) >= 1 /\ name[1] = Prefix

\* a RegisterCommand that prepends the prefix to every name
NormalizeAlways(name) == <<Prefix>> \o name

\* a RegisterCommand that stores the name as given
NormalizeNever(name) == name

\* if !strings.HasPrefix(name, "remex.") { name = "remex." + name }
Normalize(name) == IF HasPrefix(name) THEN name ELSE <<Prefix>> \o name

\* a RegisterCommand that accepts the empty name
RejectsMut(name, fn) == IF fn = "nil" THEN "nil-func" ELSE "nil"

\* the two checks at the head of RegisterCommand
Rejects(name, fn) ==
  IF name = <<>> THEN "empty-name" ELSE IF fn = "nil" THEN "nil-func" ELSE "nil"

\* registry.commands[name] = command
Store(reg, name, fn) ==
  [k \in DOMAIN reg \cup {name} |-> IF k = name THEN fn ELSE reg[k]]

RegisterCommand ==
  /\ rcCalls < MaxRegCmds
  /\ rcCalls' = rcCalls + 1
  /\ \E name \in Names(MaxName), fn \in CmdFns :
       /\ rcName' = name
       /\ rcFn' = fn
       /\ rcRet' = Rejects(name, fn)
       /\ commands' = IF Rejects(name, fn) = "nil"
                         THEN Store(commands, Normalize(name), fn)
                         ELSE commands
  /\ rcPrev' = commands
  /\ UNCHANGED rcOthers

\* GetCommand(name)
GetCommand(name) ==
  IF name \in DOMAIN commands THEN <<commands[name], TRUE>> ELSE <<"nil", FALSE>>

\* ListCommands(): the names, in no particular order
ListCommands == DOMAIN commands

RegistryNext == RegisterCommand

\* the package as loaded: the registry holds the built-in commands
RegistrySpecInit ==
  /\ EngineInit
  /\ NamesOff
  /\ TemplateOff
  /\ NotifyOff
  /\ RaceOff
  /\ MkdirOff
  /\ CmdOff
  /\ HandlersOff
  /\ RegistryInit
  /\ DispatchOff
  /\ ReaderOff
  /\ TransferOff
  /\ rev = "R1" /\ ctor = "NewWithConfig" /\ configs = {}

SpecRegistry == RegistrySpecInit /\ [][RegistryNext]_vars

----------------------------------------------------------------------------
\* SSHClient.ExecuteCommand and ExecRemexCommand (src/ssh.go): one call, with
\* the ExecRemoteCommand it may lead to.

\* A command text is a sequence of tokens: the pieces names are made of, the
\* space, and the word sudo.
Space == " "
TextTokens == Tokens \cup {Space, "sudo"}
Texts(n) == UNION {[1..k -> TextTokens] : k \in 0..n}

\* a built-in command followed by spaces and arguments
ArgTexts(n) == {<<Prefix, "upload">> \o r : r \in [1..n -> {Space, "x"}]}

Max(S) == CHOOSE x \in S : \A y \in S : x >= y

\* strings.TrimSpace(command)
TrimSpace(s) ==
  LET ns == {i \in DOMAIN s : s[i] # Space}
  IN IF ns = {} THEN <<>> ELSE SubSeq(s, Min(ns), Max(ns))

RECURSIVE Split(_)
\* strings.Split(s, " "): the pieces between the spaces, empty pieces kept;
\* one empty piece for the empty string
Split(s) ==
  LET sp == {i \in DOMAIN s : s[i] = Space}
  IN IF sp = {} THEN <<s>>
     ELSE <<SubSeq(s, 1, Min(sp) - 1)>> \o Split(SubSeq(s, Min(sp) + 1, Len(s)))

\* commandSplit := strings.Split(strings.TrimSpace(command), " ")
CommandSplit(text) == Split(TrimSpace(text))

\* strings.HasPrefix(command, "sudo")
HasSudo(text) == Len(text) >= 1 /\ text[1] = "sudo"

\* an ExecuteCommand that trims the text before it looks at its beginning
RoutesToRegistryTrimmed(text) == HasPrefix(TrimSpace(text))

\* if strings.HasPrefix(command, "remex.")
RoutesToRegistry(text) == HasPrefix(text)

\* what a command function may return: output or none, an error or nil
HandlerOutcomes == [out : {0, 1}, err : {"nil", "herr"}]

DispRet(out, err, name, cause) == [out |-> out, err |-> err, name |-> name, cause |-> cause]

\* a dispatch that hands back a failed handler's output with its bare error
HandlerResultPlain(name, o) ==
  IF o.err # "nil" THEN DispRet(o.out, o.err, <<>>, "none")
                   ELSE DispRet(o.out, "nil", <<>>, "none")

\* if err != nil { return "", fmt.Errorf("remex command '%s' failed: %w", ...) }
\* return output, nil
HandlerResult(name, o) ==
  IF o.err # "nil" THEN DispRet(0, "failed", name, o.err)
                   ELSE DispRet(o.out, "nil", <<>>, "none")

\* the registry after RegisterCommand("x", f)
RegistryWithUser ==
  /\ commands = Store(Builtin, <<Prefix, "x">>, "f")
  /\ rcCalls = 1
  /\ rcName = <<"x">>
  /\ rcFn = "f"
  /\ rcRet = "nil"
  /\ rcPrev = Builtin

\* one of the three functions is called with a command text, a connection or
\* none, and a context that may be done already
DispatchInit ==
  /\ EngineInit
  /\ NamesOff
  /\ TemplateOff
  /\ NotifyOff
  /\ RaceOff
  /\ MkdirOff
  /\ HandlersOff
  /\ ReaderOff
  /\ TransferOff
  /\ rev = "R1" /\ ctor = "NewWithConfig" /\ configs = {}
  /\ (RegistryInit \/ RegistryWithUser)
  /\ dEntry \in {"ExecuteCommand", "ExecRemexCommand", "ExecRemoteCommand"}
  /\ dText \in Texts(MaxText) \cup ArgTexts(MaxArgText)
  /\ client \in {"nil", "ok"}
  /\ sudo \in {FALSE} \cup (IF HasSudo(dText) THEN {TRUE} ELSE {})
  /\ ctxDone \in BOOLEAN
  /\ cpc = IF dEntry = "ExecRemoteCommand" THEN "entry" ELSE "off"
  /\ gpc = "none"
  /\ captured = 0
  /\ exitErr = "none"
  /\ recvErr = "none"
  /\ killSent = FALSE
  /\ sessClosed = FALSE
  /\ cret = NoCmdRet
  /\ dpc = CASE dEntry = "ExecuteCommand" -> "route"
            [] dEntry = "ExecRemexCommand" -> "remex"
            [] OTHER -> "shell"
  /\ dRoute = "none"
  /\ dLooked = {}
  /\ dInvoked = <<>>
  /\ dShell = IF dEntry = "ExecRemoteCommand" THEN <<dText>> ELSE <<>>
  /\ dOut = NoOutcome
  /\ dRet = NoDispRet

\* SSHClient.ExecuteCommand: the connection check, then the text goes to
\* ExecRemexCommand or to ExecRemoteCommand
ExecuteCommand ==
  /\ dpc = "route"
  /\ IF client = "nil"
       THEN /\ dRet' = DispRet(0, "not-connected", <<>>, "none")
            /\ dpc' = "done"
            /\ UNCHANGED <<dRoute, dShell, cpc>>
       ELSE IF RoutesToRegistry(dText)
         THEN /\ dRoute' = "remex"
              /\ dpc' = "remex"
              /\ UNCHANGED <<dRet, dShell, cpc>>
         ELSE /\ dRoute' = "shell"
              /\ dpc' = "shell"
              /\ dShell' = Append(dShell, dText)
              /\ cpc' = "entry"
              /\ UNCHANGED dRet
  /\ UNCHANGED <<dOthers, dEntry, dText, dLooked, dInvoked, dOut, client, sudo,
                 ctxDone, gpc, captured, exitErr, recvErr, killSent, sessClosed,
                 cret>>

\* ExecRemexCommand up to the call of the command function: the nil check,
\* the split, the lookup
ExecRemexCommand ==
  /\ dpc = "remex"
  /\ IF ClientIsNil
       THEN /\ dRet' = DispRet(0, "client-nil", <<>>, "none")
            /\ dpc' = "done"
            /\ UNCHANGED <<dLooked, dInvoked>>
       ELSE LET commandSplit == CommandSplit(dText)
            IN IF Len(commandSplit) = 0
                 THEN /\ dRet' = DispRet(0, "invalid", <<>>, "none")
                      /\ dpc' = "done"
                      /\ UNCHANGED <<dLooked, dInvoked>>
                 ELSE /\ dLooked' = dLooked \cup {commandSplit[1]}
                      /\ IF GetCommand(commandSplit[1])[2]
                           THEN /\ dInvoked' = Append(dInvoked,
                                      [fn |-> GetCommand(commandSplit[1])[1],
                                       args |-> Tail(commandSplit)])
                                /\ dpc' = "invoke"
                                /\ UNCHANGED dRet
                           ELSE /\ dRet' = DispRet(0, "unknown", commandSplit[1], "none")
                                /\ dpc' = "done"
                                /\ UNCHANGED dInvoked
  /\ UNCHANGED <<dOthers, cmdVars, dEntry, dText, dRoute, dShell, dOut>>

\* output, err := iFunc(ctx, client, commandSplit[1:]...): the function returns
HandlerReturns ==
  /\ dpc = "invoke"
  /\ \E o \in HandlerOutcomes : dOut' = o
  /\ dpc' = "wrap"
  /\ UNCHANGED <<dOthers, cmdVars, dEntry, dText, dRoute, dLooked, dInvoked, dShell,
                 dRet>>

\* ExecRemexCommand returns what the function returned, or its wrapped error
ExecRemexReturns ==
  /\ dpc = "wrap"
  /\ dRet' = HandlerResult(CommandSplit(dText)[1], dOut)
  /\ dpc' = "done"
  /\ UNCHANGED <<dOthers, cmdVars, dEntry, dText, dRoute, dLooked, dInvoked, dShell,
                 dOut>>

\* return ExecRemoteCommand(...): what it returned is what the caller gets
ShellReturns ==
  /\ dpc = "shell"
  /\ cpc = "done"
  /\ dRet' = DispRet(cret.out, cret.err, <<>>, "none")
  /\ dpc' = "done"
  /\ UNCHANGED <<dOthers, cmdVars, dEntry, dText, dRoute, dLooked, dInvoked, dShell,
                 dOut>>

DispatchNext ==
  \/ ExecuteCommand
  \/ ExecRemexCommand
  \/ HandlerReturns
  \/ ExecRemexReturns
  \/ ShellReturns
  \/ CmdNext

SpecDispatch == DispatchInit /\ [][DispatchNext]_vars

----------------------------------------------------------------------------
\* NewInterruptibleReader (src/cmd.go): a reader over a source r, a caller
\* that calls Read, and the owner of the context.

\* the contents of a file or source: up to n bytes
Contents(n) == UNION {[1..k -> {0, 1}] : k \in 0..n}

\* what r.Read(p) may return with pos bytes handed out and len(p) = len: some
\* bytes, the last bytes with or without io.EOF, io.EOF alone, or an error
UnderlyingReads(src, pos, len) ==
  LET rest == Len(src) - pos
      most == IF rest < len THEN rest ELSE len
  IN {[n |-> n, err |-> "nil"] : n \in 1..most}
       \cup (IF rest >= 1 /\ rest <= len THEN {[n |-> rest, err |-> "EOF"]} ELSE {})
       \cup (IF rest = 0 THEN {[n |-> 0, err |-> "EOF"]} ELSE {})
       \cup {[n |-> 0, err |-> "ioerr"]}

\* a reader that never looks at the context
CtxSeenDoneMut == FALSE

\* select { case <-ctx.Done(): ... default: ... }
CtxSeenDone == irCtx

\* Read(p) is called on the reader
IrCall(len) ==
  /\ irPc' = "check"
  /\ irLen' = len
  /\ irAtCall' = [ctx |-> irCtx, pos |-> irPos]
  /\ irUnder' = NoRead
  /\ irRet' = NoReadRet
  /\ irReads' = irReads + 1
  /\ UNCHANGED <<irCtx, irSrc, irPos>>

\* a caller calls Read with a buffer of some length
ReaderCall ==
  /\ irPc \in {"idle", "ret"}
  /\ irReads < MaxReads
  /\ \E len \in 1..MaxChunk : IrCall(len)
  /\ UNCHANGED <<irOthers, tVars>>

\* the select: return 0, ctx.Err() when the context is done, else go on to
\* r.Read(p)
ReaderCheck ==
  /\ irPc = "check"
  /\ IF CtxSeenDone
       THEN /\ irRet' = [n |-> 0, err |-> "ctx", data |-> <<>>]
            /\ irPc' = "ret"
       ELSE /\ irPc' = "under"
            /\ UNCHANGED irRet
  /\ UNCHANGED <<irOthers, tVars, irCtx, irSrc, irPos, irLen, irAtCall, irUnder,
                 irReads>>

\* return r.Read(p)
ReaderUnder ==
  /\ irPc = "under"
  /\ \E o \in UnderlyingReads(irSrc, irPos, irLen) :
       /\ irUnder' = o
       /\ irPos' = irPos + o.n
       /\ irRet' = [n |-> o.n, err |-> o.err,
                    data |-> SubSeq(irSrc, irPos + 1, irPos + o.n)]
  /\ irPc' = "ret"
  /\ UNCHANGED <<irOthers, tVars, irCtx, irSrc, irLen, irAtCall, irReads>>

\* the owner of the context cancels it
ReaderCancel ==
  /\ irPc # "off"
  /\ ~irCtx
  /\ irCtx' = TRUE
  /\ UNCHANGED <<irOthers, tVars, irPc, irSrc, irPos, irLen, irAtCall, irUnder,
                 irRet, irReads>>

\* a reader over a source, with a context that may be done already
ReaderInit ==
  /\ EngineInit
  /\ NamesOff
  /\ TemplateOff
  /\ NotifyOff
  /\ RaceOff
  /\ MkdirOff
  /\ CmdOff
  /\ HandlersOff
  /\ RegistryInit
  /\ DispatchOff
  /\ TransferOff
  /\ rev = "R1" /\ ctor = "NewWithConfig" /\ configs = {}
  /\ irPc = "idle"
  /\ irCtx \in BOOLEAN
  /\ irSrc \in Contents(MaxBytes)
  /\ irPos = 0
  /\ irLen = 0
  /\ irAtCall = [ctx |-> FALSE, pos |-> 0]
  /\ irUnder = NoRead
  /\ irRet = NoReadRet
  /\ irReads = 0

ReaderNext ==
  \/ ReaderCall
  \/ ReaderCheck
  \/ ReaderUnder
  \/ ReaderCancel

SpecReader == ReaderInit /\ [][ReaderNext]_vars

----------------------------------------------------------------------------
\* uploadFile / UploadMemoryFile and downloadFile (src/cmd.go): one local
\* file uploaded to one remote path, that path downloaded to one local path;
\* io.Copy reads the source through the interruptible reader.

\* a file left at a target path by something else: longer than any upload
Stale == [i \in 1..MaxBytes + 1 |-> 1]

\* the command's target: the remote file of an upload, the local file of a
\* download
TargetOf(op) == IF op = "upload" THEN tRemote ELSE tLocal

\* a Create that opens the file as it is and writes after its end
CreateFileMut(old) == IF old = Absent THEN <<>> ELSE old

\* sftpClient.Create / os.Create: the file is created, or truncated
CreateFile(old) == <<>>

\* a cleanup that leaves the file
RemoveFileMut(f, ok) == f

\* sftpClient.Remove / os.Remove, its error dropped: the file is gone unless
\* the removal fails (the connection the copy failed on is lost; the file,
\* not closed yet, cannot be removed while open)
RemoveFile(f, ok) == IF ok THEN Absent ELSE f

Returned(op, err, cause, n, removed) ==
  [op |-> op, err |-> err, cause |-> cause, n |-> n, removed |-> removed]

\* a reader over src that has not been read from
FreshReader(src) ==
  /\ irSrc' = src
  /\ irPos' = 0
  /\ irPc' = "idle"
  /\ irLen' = 0
  /\ irAtCall' = [ctx |-> FALSE, pos |-> 0]
  /\ irUnder' = NoRead
  /\ irRet' = NoReadRet
  /\ irReads' = 0

\* the command starts with a reader over src and an empty target
BeginCopy(src) ==
  /\ FreshReader(src)
  /\ tpc' = "read"
  /\ tCause' = "none"
  /\ tRemoved' = "none"
  /\ UNCHANGED <<irCtx, tLog>>

\* the command returns an error before anything was created
FailEarly(op, err) ==
  /\ tLog' = Append(tLog, Returned(op, err, "none", 0, "none"))
  /\ tOp' = op
  /\ UNCHANGED <<irVars, tpc, tSrc, tRemote, tLocal, tCause, tRemoved>>

\* uploadFile up to io.Copy: the local file is there; the SFTP client, the
\* remote directory or the remote file may fail to be made
UploadStart ==
  /\ tpc = "idle"
  /\ tOps < MaxTransfers
  /\ tOps' = tOps + 1
  /\ \E ok \in BOOLEAN :
       IF ok
         THEN /\ tOp' = "upload"
              /\ tRemote' = CreateFile(tRemote)
              /\ BeginCopy(tSrc)
              /\ UNCHANGED <<tSrc, tLocal>>
         ELSE FailEarly("upload", "setup")
  /\ UNCHANGED irOthers

\* downloadFile up to io.Copy: the remote file must exist; the SFTP client,
\* the open or the local file may fail
DownloadStart ==
  /\ tpc = "idle"
  /\ tOps < MaxTransfers
  /\ tOps' = tOps + 1
  /\ IF tRemote = Absent
       THEN FailEarly("download", "notfound")
       ELSE \E ok \in BOOLEAN :
              IF ok
                THEN /\ tOp' = "download"
                     /\ tLocal' = CreateFile(tLocal)
                     /\ BeginCopy(tRemote)
                     /\ UNCHANGED <<tSrc, tRemote>>
                ELSE FailEarly("download", "setup")
  /\ UNCHANGED irOthers

\* io.Copy calls Read on the interruptible reader
CopyRead ==
  /\ tpc = "read"
  /\ irPc = "idle"
  /\ IrCall(MaxChunk)
  /\ tpc' = "reading"
  /\ UNCHANGED <<irOthers, tOp, tSrc, tRemote, tLocal, tCause, tRemoved, tLog, tOps>>

\* the target after data was written to it
Written(op, data) ==
  /\ tRemote' = IF op = "upload" THEN tRemote \o data ELSE tRemote
  /\ tLocal' = IF op = "download" THEN tLocal \o data ELSE tLocal

\* io.Copy has the Read's result: the bytes are written to the target (all
\* of them, or some and an error); then the loop goes on, or the copy is
\* over (io.EOF: the command returns the byte count), or it has failed
CopyWrite ==
  /\ tpc = "reading"
  /\ irPc = "ret"
  /\ \E k \in 0..irRet.n :
       /\ Written(tOp, SubSeq(irRet.data, 1, k))
       /\ IF k < irRet.n
            THEN /\ tCause' = "werr"
                 /\ tpc' = "cleanup"
                 /\ FreshReader(<<>>)
                 /\ UNCHANGED tLog
            ELSE IF irRet.err = "nil"
              THEN /\ tpc' = "read"
                   /\ irPc' = "idle"
                   /\ UNCHANGED <<tCause, tLog, irSrc, irPos, irLen, irAtCall,
                                  irUnder, irRet, irReads>>
              ELSE IF irRet.err = "EOF"
                THEN /\ tpc' = "idle"
                     /\ tLog' = Append(tLog, Returned(tOp, "nil", "none", irPos, "none"))
                     /\ FreshReader(<<>>)
                     /\ UNCHANGED tCause
                ELSE /\ tCause' = irRet.err
                     /\ tpc' = "cleanup"
                     /\ FreshReader(<<>>)
                     /\ UNCHANGED tLog
  /\ UNCHANGED <<irOthers, irCtx, tOp, tSrc, tRemoved, tOps>>

\* if err != nil { Remove(target); return ..., "failed to copy file content" }
CopyCleanup ==
  /\ tpc = "cleanup"
  /\ \E ok \in BOOLEAN :
       /\ tRemote' = IF tOp = "upload" THEN RemoveFile(tRemote, ok) ELSE tRemote
       /\ tLocal' = IF tOp = "download" THEN RemoveFile(tLocal, ok) ELSE tLocal
       /\ tRemoved' = IF ok THEN "ok" ELSE "failed"
       /\ tLog' = Append(tLog, Returned(tOp, "copy", tCause, 0,
                                        IF ok THEN "ok" ELSE "failed"))
  /\ tpc' = "idle"
  /\ UNCHANGED <<irOthers, irVars, tOp, tSrc, tCause, tOps>>

\* a local file to upload, whatever was at the two target paths before, and
\* a context not done yet
TransferInit ==
  /\ EngineInit
  /\ NamesOff
  /\ TemplateOff
  /\ NotifyOff
  /\ RaceOff
  /\ MkdirOff
  /\ CmdOff
  /\ HandlersOff
  /\ RegistryInit
  /\ DispatchOff
  /\ rev = "R1" /\ ctor = "NewWithConfig" /\ configs = {}
  /\ irPc = "idle"
  /\ irCtx = FALSE
  /\ irSrc = <<>>
  /\ irPos = 0
  /\ irLen = 0
  /\ irAtCall = [ctx |-> FALSE, pos |-> 0]
  /\ irUnder = NoRead
  /\ irRet = NoReadRet
  /\ irReads = 0
  /\ tOp = "none"
  /\ tpc = "idle"
  /\ tSrc \in Contents(MaxBytes)
  /\ tRemote \in {Absent, Stale}
  /\ tLocal \in {Absent, Stale}
  /\ tCause = "none"
  /\ tRemoved = "none"
  /\ tLog = <<>>
  /\ tOps = 0

TransferNext ==
  \/ UploadStart
  \/ DownloadStart
  \/ CopyRead
  \/ ReaderCheck
  \/ ReaderUnder
  \/ ReaderCancel
  \/ CopyWrite
  \/ CopyCleanup

SpecTransfer == TransferInit /\ [][TransferNext]_vars

\* createRemoteDirectory (src/cmd.go): the in-band command remex.mkdir.
\* A path is the sequence of its components; <<>> is the empty string.
Components == {"a", "b"}
Paths(n) == UNION {[1..k -> Components] : k \in 0..n}

\* the path and its ancestors, the root left out
Prefixes(p) == {SubSeq(p, 1, k) : k \in 1..Len(p)}

\* the argument lists passed: none, one path, or two
MkdirArgs == {<<>>} \cup {<<p>> : p \in Paths(MaxDepth)}
               \cup {<<p, p>> : p \in Paths(1)}

MkdirFs(dirs, files, err) == [dirs |-> dirs, files |-> files, err |-> err]

\* a Mkdir that fails on a directory that exists
MkdirPlain(dirs, files, p) ==
  IF \E q \in Prefixes(p) : q \in files \/ q \in dirs
    THEN MkdirFs(dirs, files, "mkdir")
    ELSE MkdirFs(dirs \cup Prefixes(p), files, "nil")

\* sftpClient.MkdirAll(directoryPath): a path that is a directory is a
\* success; a file at the path or at one of its ancestors is an error, the
\* ancestors before it having been made; otherwise every missing directory of
\* the path is made.
MkdirAll(dirs, files, p) ==
  IF \E q \in Prefixes(p) : q \in files
    THEN LET f == CHOOSE q \in Prefixes(p) : q \in files
         IN MkdirFs(dirs \cup {q \in Prefixes(p) : Len(q) < Len(f)}, files, "mkdir")
    ELSE MkdirFs(dirs \cup Prefixes(p), files, "nil")

\* createRemoteDirectory(ctx, client, args...): the argument checks, the SFTP
\* client, MkdirAll.  conn: sftp.NewClient succeeds.
createRemoteDirectory ==
  /\ Len(mLog) < MaxMkdirs
  /\ \E args \in MkdirArgs, conn \in BOOLEAN :
       LET r == IF Len(args) # 1 THEN MkdirFs(mDirs, mFiles, "argc")
                ELSE IF args[1] = <<>> THEN MkdirFs(mDirs, mFiles, "empty")
                ELSE IF ~conn THEN MkdirFs(mDirs, mFiles, "sftp")
                ELSE MkdirAll(mDirs, mFiles, args[1])
       IN /\ mDirs' = r.dirs
          /\ mFiles' = r.files
          /\ mLog' = Append(mLog, [args |-> args, err |-> r.err, conn |-> conn,
                                   before |-> mDirs, dirs |-> r.dirs,
                                   files |-> r.files])
  /\ UNCHANGED mOthers

\* the remote file system before the first call: the directories of one path
\* and at most one file, in a directory that exists
MkdirInit ==
  /\ EngineInit
  /\ NamesOff
  /\ TemplateOff
  /\ NotifyOff
  /\ RaceOff
  /\ CmdOff /\ HandlersOff /\ RegistryInit /\ DispatchOff /\ ReaderOff /\ TransferOff
  /\ rev = "R1" /\ ctor = "NewWithConfig" /\ configs = {}
  /\ \E p \in Paths(MaxDepth) : mDirs = Prefixes(p)
  /\ mFiles \in {F \in SUBSET (Paths(MaxDepth) \ {<<>>}) :
                    /\ Cardinality(F) <= 1
                    /\ \A f \in F : /\ f \notin mDirs
                                     /\ Prefixes(f) \ {f} \subseteq mDirs}
  /\ mLog = <<>>

MkdirNext == createRemoteDirectory

SpecMkdir == MkdirInit /\ [][MkdirNext]_vars

----------------------------------------------------------------------------
\* The accesses of the engine's operations to r.clients and r.handlers, and
\* the calls of r.mutex around them.  An operation is the sequence of these
\* steps in the order of its code, for a run that dials one host with success.
Procs == 1..NumProcs

Step(k, obj) == [k |-> k, obj |-> obj]

Ops == {"RegisterHandler", "notifyHandlers", "Connect", "Execute", "Close",
        "GetConnectedHosts", "GetClientByID"}

UnderLock(body) == <<Step("Lock", "mutex")>> \o body \o <<Step("Unlock", "mutex")>>
UnderRLock(body) == <<Step("RLock", "mutex")>> \o body \o <<Step("RUnlock", "mutex")>>

\* Connect: the store of the session and len(r.clients) after the loop.  RA
\* looks the id up and stores under the write lock; R1 and RB store with no
\* lock; R1's store panics and ends the operation.
ConnectSteps(rv) ==
  IF rv = "RA"
    THEN UnderLock(<<Step("read", "clients"), Step("write", "clients")>>)
           \o <<Step("read", "clients")>>
    ELSE IF rv = "RB"
      THEN <<Step("write", "clients"), Step("read", "clients")>>
      ELSE <<Step("write", "clients")>>

\* Execute: len(r.clients) (R1, RB) and the range over r.clients
ExecuteSteps(rv) ==
  IF rv = "RA"
    THEN <<Step("read", "clients")>>
    ELSE <<Step("read", "clients"), Step("read", "clients")>>

\* notifyHandlers: the range over r.handlers under the read lock; in RA the
\* range is in a goroutine that never gets to it
NotifySteps(rv) ==
  IF rv = "RA" THEN UnderRLock(<<>>)
               ELSE UnderRLock(<<Step("read", "handlers")>>)

Program(rv, op) ==
  CASE op = "RegisterHandler" -> UnderLock(<<Step("write", "handlers")>>)
    [] op = "notifyHandlers" -> NotifySteps(rv)
    [] op = "Connect" -> ConnectSteps(rv)
    [] op = "Execute" -> ExecuteSteps(rv)
    [] op = "Close" -> <<Step("read", "clients")>>
    [] op = "GetConnectedHosts" -> UnderRLock(<<Step("read", "clients")>>)
    [] op = "GetClientByID" -> UnderRLock(<<Step("read", "clients")>>)

\* the step goroutine p is about to take
AtStep(p) == Program(rev, aOp[p])[aPc[p]]

Running(p) == aOp[p] # "none" /\ aPc[p] <= Len(Program(rev, aOp[p]))

\* R1 has no GetClientByID
OpsOf(rv) == IF rv = "R1" THEN Ops \ {"GetClientByID"} ELSE Ops

RaceStart(p) ==
  /\ aOp[p] = "none"
  /\ \E op \in OpsOf(rev) :
       /\ aOp' = [aOp EXCEPT ![p] = op]
       /\ aPc' = [aPc EXCEPT ![p] = 1]
  /\ UNCHANGED <<aOthers, aW, aR>>

\* r.mutex.Lock(): waits until there is no holder
RaceLock(p) ==
  /\ Running(p) /\ AtStep(p).k = "Lock"
  /\ aW = 0 /\ aR = {}
  /\ aW' = p
  /\ aPc' = [aPc EXCEPT ![p] = @ + 1]
  /\ UNCHANGED <<aOthers, aOp, aR>>

\* r.mutex.RLock(): waits until there is no writer
RaceRLock(p) ==
  /\ Running(p) /\ AtStep(p).k = "RLock"
  /\ aW = 0
  /\ aR' = aR \cup {p}
  /\ aPc' = [aPc EXCEPT ![p] = @ + 1]
  /\ UNCHANGED <<aOthers, aOp, aW>>

RaceUnlock(p) ==
  /\ Running(p) /\ AtStep(p).k \in {"Unlock", "RUnlock"}
  /\ aW' = IF AtStep(p).k = "Unlock" THEN 0 ELSE aW
  /\ aR' = aR \ {p}
  /\ aPc' = [aPc EXCEPT ![p] = @ + 1]
  /\ UNCHANGED <<aOthers, aOp>>

\* the read or the write itself
RaceAccess(p) ==
  /\ Running(p) /\ AtStep(p).k \in {"read", "write"}
  /\ aPc' = [aPc EXCEPT ![p] = @ + 1]
  /\ UNCHANGED <<aOthers, aOp, aW, aR>>

\* the operation returns
RaceReturn(p) ==
  /\ aOp[p] # "none" /\ ~Running(p)
  /\ aOp' = [aOp EXCEPT ![p] = "none"]
  /\ aPc' = [aPc EXCEPT ![p] = 1]
  /\ UNCHANGED <<aOthers, aW, aR>>

RaceInit ==
  /\ EngineInit
  /\ NamesOff
  /\ TemplateOff
  /\ NotifyOff
  /\ MkdirOff
  /\ CmdOff /\ HandlersOff /\ RegistryInit /\ DispatchOff /\ ReaderOff /\ TransferOff
  /\ ctor = "NewWithContext" /\ configs = Hosts
  /\ aOp = [p \in Procs |-> "none"]
  /\ aPc = [p \in Procs |-> 1]
  /\ aW = 0
  /\ aR = {}

RaceNext ==
  \E p \in Procs :
    \/ RaceStart(p)
    \/ RaceLock(p)
    \/ RaceRLock(p)
    \/ RaceUnlock(p)
    \/ RaceAccess(p)
    \/ RaceReturn(p)

SpecRace == RaceInit /\ [][RaceNext]_vars

----------------------------------------------------------------------------
\* The host tasks calling notifyHandlers, what a handler does while it is
\* called, and r.mutex as sync.RWMutex behaves: Lock waits for every reader
\* to leave, and from the moment a Lock waits no RLock is granted.
\* Goroutine 0 calls RegisterHandler from outside; goroutine h is the task of
\* host h.  sPc: "idle", "rlock" (in RLock of notifyHandlers), "handler",
\* "blocked" (the handler does not return), "lock" (in Lock of
\* RegisterHandler), "append", "qrlock" (in RLock of GetConnectedHosts),
\* "qread", "runlock".
Registrar == 0
Goroutines == {Registrar} \cup Hosts

\* what a handler does with the result: returns, never returns, calls
\* RegisterHandler, calls GetConnectedHosts
Behaviours == {"return", "block", "RegisterHandler", "GetConnectedHosts"}

\* RLock is granted: no writer holds the lock and none waits for it
RLockFree == sW = -1 /\ sWait = {}

\* Lock is granted: no writer and no reader holds the lock
LockFree == sW = -1 /\ \A g \in Goroutines : sR[g] = 0

\* the task of host h emits a result: notifyHandlers calls RLock
NotifyEnter(h) ==
  /\ sPc[h] = "idle"
  /\ sEv[h] < MaxEvents
  /\ sEv' = [sEv EXCEPT ![h] = @ + 1]
  /\ sPc' = [sPc EXCEPT ![h] = "rlock"]
  /\ UNCHANGED <<sOthers, sW, sR, sWait, sApp>>

\* RLock returns, in notifyHandlers or in GetConnectedHosts.  In RA
\* notifyHandlers calls no handler.
RLockGranted(g) ==
  /\ sPc[g] \in {"rlock", "qrlock"}
  /\ RLockFree
  /\ sR' = [sR EXCEPT ![g] = @ + 1]
  /\ sPc' = [sPc EXCEPT ![g] = IF sPc[g] = "qrlock" THEN "qread"
                                ELSE IF rev = "RA" THEN "runlock" ELSE "handler"]
  /\ UNCHANGED <<sOthers, sW, sWait, sEv, sApp>>

\* handler(result): the handler runs on the task, under the read lock
HandlerRuns(h) ==
  /\ sPc[h] = "handler"
  /\ \E b \in Behaviours :
       /\ sPc' = [sPc EXCEPT ![h] =
                    CASE b = "return" -> "runlock"
                      [] b = "block" -> "blocked"
                      [] b = "RegisterHandler" -> "lock"
                      [] b = "GetConnectedHosts" -> "qrlock"]
       /\ sWait' = IF b = "RegisterHandler" THEN sWait \cup {h} ELSE sWait
  /\ UNCHANGED <<sOthers, sW, sR, sEv, sApp>>

\* RegisterHandler is called from outside: Lock
RegisterEnter ==
  /\ sPc[Registrar] = "idle"
  /\ sApp < MaxAppends
  /\ sApp' = sApp + 1
  /\ sPc' = [sPc EXCEPT ![Registrar] = "lock"]
  /\ sWait' = sWait \cup {Registrar}
  /\ UNCHANGED <<sOthers, sW, sR, sEv>>

\* Lock returns
LockGranted(g) ==
  /\ sPc[g] = "lock"
  /\ LockFree
  /\ sW' = g
  /\ sWait' = sWait \ {g}
  /\ sPc' = [sPc EXCEPT ![g] = "append"]
  /\ UNCHANGED <<sOthers, sR, sEv, sApp>>

\* the append and the deferred Unlock: RegisterHandler returns, to the
\* caller or to the handler that called it
RegisterLeave(g) ==
  /\ sPc[g] = "append"
  /\ sW' = -1
  /\ sPc' = [sPc EXCEPT ![g] = IF g = Registrar THEN "idle" ELSE "runlock"]
  /\ UNCHANGED <<sOthers, sR, sWait, sEv, sApp>>

\* GetConnectedHosts returns to the handler: RUnlock
QueryLeave(h) ==
  /\ sPc[h] = "qread"
  /\ sR' = [sR EXCEPT ![h] = @ - 1]
  /\ sPc' = [sPc EXCEPT ![h] = "runlock"]
  /\ UNCHANGED <<sOthers, sW, sWait, sEv, sApp>>

\* the deferred RUnlock: notifyHandlers returns to the task
NotifyLeave(h) ==
  /\ sPc[h] = "runlock"
  /\ sR' = [sR EXCEPT ![h] = @ - 1]
  /\ sPc' = [sPc EXCEPT ![h] = "idle"]
  /\ UNCHANGED <<sOthers, sW, sWait, sEv, sApp>>

NotifyInit ==
  /\ EngineInit
  /\ NamesOff
  /\ TemplateOff
  /\ RaceOff
  /\ MkdirOff
  /\ CmdOff /\ HandlersOff /\ RegistryInit /\ DispatchOff /\ ReaderOff /\ TransferOff
  /\ ctor = "NewWithContext" /\ configs = Hosts
  /\ sPc = [g \in Goroutines |-> "idle"]
  /\ sW = -1
  /\ sR = [g \in Goroutines |-> 0]
  /\ sWait = {}
  /\ sEv = [h \in Hosts |-> 0]
  /\ sApp = 0

NotifyNext ==
  \/ RegisterEnter
  \/ \E g \in Goroutines :
       \/ RLockGranted(g)
       \/ LockGranted(g)
       \/ RegisterLeave(g)
  \/ \E h \in Hosts :
       \/ NotifyEnter(h)
       \/ HandlerRuns(h)
       \/ QueryLeave(h)
       \/ NotifyLeave(h)

SpecNotify == NotifyInit /\ [][NotifyNext]_vars

----------------------------------------------------------------------------
\* Execute(commands) of part_001: the loop that starts one task per session.
\* A command is a sequence of tokens: a piece of text, the placeholder
\* {{REMEX_ID}}, a line break, or (after substitution) a host id.
Placeholder == "{{REMEX_ID}}"
NewLine == "\n"
TplTokens == {"echo", Placeholder, NewLine}
TplCommands(n) == UNION {[1..k -> TplTokens] : k \in 1..n}
TplLists(n, m) == UNION {[1..k -> TplCommands(m)] : k \in 0..n}

RECURSIVE JoinLines(_)
\* strings.Join(commands, "\n")
JoinLines(l) ==
  IF l = <<>> THEN <<>>
  ELSE IF Len(l) = 1 THEN l[1]
  ELSE l[1] \o <<NewLine>> \o JoinLines(Tail(l))

RECURSIVE SplitLines(_)
\* strings.Split(s, "\n")
SplitLines(s) ==
  LET nl == {i \in DOMAIN s : s[i] = NewLine}
  IN IF nl = {} THEN <<s>>
     ELSE <<SubSeq(s, 1, Min(nl) - 1)>> \o SplitLines(SubSeq(s, Min(nl) + 1, Len(s)))

\* fasttemplate.ExecuteString(s, "{{", "}}", {REMEX_ID: id}): every
\* placeholder of s becomes id
ExecuteString(s, id) == [i \in DOMAIN s |-> IF s[i] = Placeholder THEN id ELSE s[i]]

\* the id of a host, as text
HostId(h) == ToString(h)

\* commands = strings.Split(ExecuteString(strings.Join(commands, "\n"), id), "\n");
\* part_001:283-539 passes the list on as it is
Substituted(l, id) ==
  IF rev = "RA" THEN SplitLines(ExecuteString(JoinLines(l), id)) ELSE l

\* one turn of the range loop over r.clients (a map: any order): the
\* variable commands is assigned the substituted list, and a task is started
\* with a closure over that variable
ExecuteLoop(h) ==
  /\ h \in xTodo
  /\ xTodo' = xTodo \ {h}
  /\ xCmds' = Substituted(xCmds, HostId(h))
  /\ xGo' = xGo \cup {h}
  /\ UNCHANGED <<xOthers, xOrig, xTask, xRan>>

\* the task's closure runs: r.execCommands(client, commands) with the value
\* the variable has at that moment
TaskStarts(h) ==
  /\ h \in xGo
  /\ xGo' = xGo \ {h}
  /\ xTask' = [xTask EXCEPT ![h] = xCmds]
  /\ xRan' = xRan \cup {h}
  /\ UNCHANGED <<xOthers, xOrig, xCmds, xTodo>>

\* Execute is called with a command list on an engine with sessions
TemplateInit ==
  /\ EngineInit
  /\ NamesOff
  /\ NotifyOff
  /\ RaceOff
  /\ MkdirOff
  /\ CmdOff /\ HandlersOff /\ RegistryInit /\ DispatchOff /\ ReaderOff /\ TransferOff
  /\ rev \in {"RA", "RB"} /\ configs = Hosts
  /\ xOrig \in TplLists(MaxTplCmds, MaxTplLen)
  /\ xCmds = xOrig
  /\ xTodo \in SUBSET Hosts
  /\ xGo = {}
  /\ xTask = [h \in Hosts |-> <<>>]
  /\ xRan = {}

TemplateNext == \E h \in Hosts : ExecuteLoop(h) \/ TaskStarts(h)

SpecTemplate == TemplateInit /\ [][TemplateNext]_vars

----------------------------------------------------------------------------
\* src/remex.go: Connect stores each session under its config's Name, and
\* Execute finds the commands of a session by the session's address.
\* A config is its Name, its address and (the identity of) its command list.
\* r.clients is a nil map, or a map made with make (m: name -> address of the
\* session stored)
NilMap == [made |-> FALSE, m |-> <<>>]
EmptyMap == [made |-> TRUE, m |-> <<>>]

\* NewRemoteConfig(addr, username, password, commands): Name is not set
NewRemoteConfig(addr, cmds) == [name |-> "", addr |-> addr, cmds |-> cmds]

\* &Config{Name: ..., SSHConfig: ..., Commands: ...}
LiteralConfig(name, addr, cmds) == [name |-> name, addr |-> addr, cmds |-> cmds]

\* the config lists: hosts with distinct addresses, each with a command list
ConfigLists(built) ==
  {l \in UNION {[1..k -> [addr : Hosts, cmds : 1..MaxCmdLists]] : k \in 0..NumHosts} :
     \A i, j \in DOMAIN l : i # j => l[i].addr # l[j].addr}

Built(built, l) ==
  [i \in DOMAIN l |->
     IF built = "NewRemoteConfig" THEN NewRemoteConfig(l[i].addr, l[i].cmds)
     ELSE LiteralConfig(ToString(l[i].addr), l[i].addr, l[i].cmds)]

\* len(r.clients)
MapLen == Cardinality(DOMAIN kMap.m)

\* r.clients[name] = client
MapStore(c, name, addr) ==
  [c EXCEPT !.m = [n \in DOMAIN c.m \cup {name} |-> IF n = name THEN addr ELSE c.m[n]]]

\* Execute(): if len(r.clients) == 0 { r.Connect() }
NamesExecute ==
  /\ kPc = "idle"
  /\ kPc' = IF MapLen = 0 THEN "connect" ELSE "spawn"
  /\ kI' = 1
  /\ UNCHANGED <<kOthers, kBuilt, kConfigs, kMap, kDialled, kRun, kRet>>

\* one turn of Connect's loop: the dial fails, or the session is stored under
\* config.Name; storing into the nil map panics
NamesDial ==
  /\ kPc = "connect"
  /\ kI <= Len(kConfigs)
  /\ \E ok \in BOOLEAN :
       IF ~ok
         THEN /\ kI' = kI + 1
              /\ UNCHANGED <<kMap, kPc, kDialled>>
         ELSE /\ kDialled' = kDialled \cup {kConfigs[kI].addr}
              /\ IF ~kMap.made
                   THEN /\ kPc' = "panic"
                        /\ UNCHANGED <<kMap, kI>>
                   ELSE /\ kMap' = MapStore(kMap, kConfigs[kI].name, kConfigs[kI].addr)
                        /\ kI' = kI + 1
                        /\ UNCHANGED kPc
  /\ UNCHANGED <<kOthers, kBuilt, kConfigs, kRun, kRet>>

\* after the loop: no session is an error, which Execute returns wrapped
NamesConnected ==
  /\ kPc = "connect"
  /\ kI > Len(kConfigs)
  /\ IF MapLen = 0
       THEN kPc' = "done" /\ kRet' = "connfail-noconn"
       ELSE kPc' = "spawn" /\ UNCHANGED kRet
  /\ UNCHANGED <<kOthers, kBuilt, kConfigs, kMap, kI, kDialled, kRun>>

\* slices.IndexFunc(r.config, ...): the first config with the session's address
ConfigOf(addr) ==
  Min({i \in DOMAIN kConfigs : kConfigs[i].addr = addr})

\* Execute's loop: one task per entry of r.clients, with the commands of the
\* config found by the session's address
NamesSpawn ==
  /\ kPc = "spawn"
  /\ kRun' = {[addr |-> kMap.m[n], cmds |-> kConfigs[ConfigOf(kMap.m[n])].cmds] :
                n \in DOMAIN kMap.m}
  /\ kPc' = "done"
  /\ kRet' = "nil"
  /\ UNCHANGED <<kOthers, kBuilt, kConfigs, kMap, kI, kDialled>>

\* the engine as NewWithConfig returns it (no map), or with the empty map
\* assigned by hand as src/remex_test.go:122 does
NamesInit ==
  /\ EngineInit
  /\ TemplateOff
  /\ NotifyOff
  /\ RaceOff
  /\ MkdirOff
  /\ CmdOff /\ HandlersOff /\ RegistryInit /\ DispatchOff /\ ReaderOff /\ TransferOff
  /\ rev = "R1" /\ ctor = "NewWithConfig" /\ configs = {}
  /\ kBuilt \in {"NewRemoteConfig", "literal"}
  /\ \E l \in ConfigLists(kBuilt) : kConfigs = Built(kBuilt, l)
  /\ kMap \in {NilMap, EmptyMap}
  /\ kPc = "idle"
  /\ kI = 1
  /\ kDialled = {}
  /\ kRun = {}
  /\ kRet = "none"

NamesNext ==
  \/ NamesExecute
  \/ NamesDial
  \/ NamesConnected
  \/ NamesSpawn

SpecNames == NamesInit /\ [][NamesNext]_vars

----------------------------------------------------------------------------
\* TestClose: the session map is filled by hand with an SSHClient that never
\* dialled (its ssh.Client is nil).
InjectClient(h) ==
  /\ pc = "idle"
  /\ closePc \in {"idle", "done"}
  /\ sess[h] = "none"
  /\ sess' = [sess EXCEPT ![h] = "unconnected"]
  /\ UNCHANGED <<compVars, ctorVars, logVars, connVars, taskVars, closeVars,
                 cancelled, leaked, handlers, everOK, pc, pendN, ret, calls,
                 gErr>>

TestCloseNext ==
  \/ \E h \in Hosts : InjectClient(h)
  \/ RegisterHandler
  \/ CloseCall
  \/ CloseReturn

SpecTestClose == Init /\ [][TestCloseNext]_vars

----------------------------------------------------------------------------
\* GetConnectedHosts and GetClientByID, called while the engine connects and
\* closes.

\* a snapshot of the sessions whose connection is open
GetConnectedHostsOpen == {h \in Hosts : sess[h] = "open"}

\* GetConnectedHosts: one entry per entry of r.clients
GetConnectedHosts == Clients

\* r.clients[id], or the entry whose ID is id: the session and true, or
\* nothing and false
GetClientByID(id) ==
  IF sess[id] # "none" THEN <<[host |-> id, state |-> sess[id]], TRUE>>
                       ELSE <<NoClient, FALSE>>

\* The calls take r.mutex.RLock.  Connect of RA stores a session under
\* r.mutex.Lock, so a call may come at any moment; R1 and RB store it without
\* the lock, and there the calls are made while no Connect runs.
CanQuery == ~Panicked /\ (rev = "RA" \/ pc = "idle")

QueryCall(kind, id) ==
  /\ CanQuery
  /\ qCalls < MaxQueries
  /\ qCalls' = qCalls + 1
  /\ qKind' = kind
  /\ qArg' = id
  /\ UNCHANGED qOthers

GetConnectedHostsCall ==
  /\ QueryCall("hosts", 0)
  /\ qRet' = QueryRet(GetConnectedHosts, FALSE, NoClient)

\* R1 has no lookup by id
GetClientByIDCall ==
  /\ rev # "R1"
  /\ \E id \in Hosts :
       /\ QueryCall("byid", id)
       /\ qRet' = QueryRet({}, GetClientByID(id)[2], GetClientByID(id)[1])

QueryNext ==
  \/ ConnectCall
  \/ ConnectCheck
  \/ ConnectDial
  \/ \E h \in Hosts : InjectClient(h)
  \/ RegisterHandler
  \/ CloseCall
  \/ CloseReturn
  \/ GetConnectedHostsCall
  \/ GetClientByIDCall

\* an engine made by NewWithContext
QueryInit == Init /\ ctor = "NewWithContext"

SpecQuery == QueryInit /\ [][QueryNext]_vars

Next ==
  \/ RegisterHandler
  \/ ConnectCall
  \/ ConnectCheck
  \/ ConnectDial
  \/ ExecuteCall
  \/ \E h \in Hosts : TaskBegin(h)
  \/ \E h \in Hosts : TaskFinish(h)
  \/ ExecuteReturn
  \/ CloseCall
  \/ CloseReturn

Spec == Init /\ [][Next]_vars

TypeOK ==
  /\ rev \in Revisions
  /\ pc \in {"idle", "connCheck", "connDial", "execWait", "panic"}
  /\ closePc \in {"idle", "wait", "done"}
  /\ \A h \in Hosts : task[h] \in {"none", "ready", "running", "ok", "err", "cancel"}
  /\ \A h \in Hosts : sess[h] \in {"none", "open", "closed", "unconnected"}
  /\ handlers \in 0..MaxHandlers
  /\ calls \in 0..MaxCalls

----------------------------------------------------------------------------
\* Properties

IsStart(e, k) == e.stage = "Start" /\ e.k = k
IsFinish(e, k) == e.stage = "Finish" /\ e.k = k
StartsOf(log, k) == {j \in DOMAIN log : IsStart(log[j], k)}
FinishesOf(log, k) == {j \in DOMAIN log : IsFinish(log[j], k)}
DialErrorsOf(log) == {j \in DOMAIN log : log[j].stage = "Connected" /\ log[j].err = "dial"}

\* C1: once command k has failed on a host (its Finish result carries an
\* error), the host's task emits no Start and attempts no execution for any
\* later command k' > k of the list.
C1_NoCommandAfterFailure ==
  \A h \in Hosts : \A i \in DOMAIN emitted[h] :
    (emitted[h][i].stage = "Finish" /\ emitted[h][i].err # "nil") =>
      /\ \A j \in DOMAIN emitted[h] :
           emitted[h][j].stage = "Start" => emitted[h][j].k <= emitted[h][i].k
      /\ \A a \in attempted[h] : a.k <= emitted[h][i].k

\* a task ended by the failure of a command that was not the last of its list
C1_Witness ==
  \E h \in Hosts :
    /\ pc = "idle" /\ ret.op = "Execute"
    /\ task[h] = "err" /\ idx[h] < ncmd[h]
    /\ \E i \in DOMAIN emitted[h] : IsFinish(emitted[h][i], idx[h]) /\ emitted[h][i].err = "fail"

\* C2: while Close has not been called, the failure of a command on one host
\* does not abort another host's task: no other task returns the context's
\* error and no other host's command is ended by the cancellation.
C2_OtherHostsUnaffected ==
  \A h \in Hosts :
    (closeCalls = 0 /\ gErr.err = "fail" /\ gErr.h # h) =>
      /\ task[h] # "cancel"
      /\ \A i \in DOMAIN emitted[h] : emitted[h][i].err # "ctx"

\* C3: for every attempted command, each handler registered when the command
\* started has received exactly one Start and (once the command has returned)
\* exactly one Finish for it, the Start first.
C3_OneStartThenOneFinish ==
  \A h \in Hosts : \A a \in attempted[h] : \A i \in 1..a.nh :
    LET S == StartsOf(received[i][h], a.k)
        F == FinishesOf(received[i][h], a.k)
    IN /\ Cardinality(S) = 1
       /\ Cardinality(F) <= 1
       /\ \A x \in S : \A y \in F : x < y
       /\ (~(task[h] = "running" /\ idx[h] = a.k)) => Cardinality(F) = 1

\* C4: when Close has returned, no session established before is still open.
C4_CloseClosesEverySession ==
  closePc = "done" => leftOpen = {}

\* C5: once Connect is over (it has returned, or it has been unwound by a
\* panic), the session map holds exactly the hosts whose dial succeeded (on a
\* first Connect: exactly those whose dial succeeded in it).
C5_ConnectedEqualsSucceeded ==
  /\ pc \in {"idle", "execWait", "panic"} => GetConnectedHosts = everOK
  /\ (pc = "idle" /\ ret.op = "Connect" /\ calls = 1) =>
        GetConnectedHosts = {h \in Hosts : lastDial[h] = "ok"}

\* C6: a Connect that was not cancelled returns the no-successful-connections
\* error, joining the errors of all the dials that failed, iff no session was
\* ever established; a Connect in which a dial succeeded returns nil: it does
\* not end in a panic.
C6_NoConnectionsIffNoSession ==
  /\ (pc = "idle" /\ ret.op = "Connect" /\ ret.val # "ctx") =>
       /\ ret.val = "noconn" <=> everOK = {}
       /\ ret.val # "noconn" => ret.val = "nil"
       /\ ret.val = "noconn" => ret.errs = {h \in Hosts : lastDial[h] = "fail"}
  /\ (Panicked /\ ~inExec) => \A h \in Hosts : lastDial[h] # "ok"

\* C7: a failed dial is reported as one Connected result carrying the error,
\* to every handler registered at that time, and Connect goes on.
C7_DialFailureReported ==
  \A h \in Hosts : \A d \in failedDial[h] :
    /\ ~(Panicked /\ cur = h)
    /\ Cardinality(DialErrorsOf(emitted[h])) = 1
    /\ \A i \in 1..d.nh : Cardinality(DialErrorsOf(received[i][h])) = 1

C9_ExecuteFailsWithoutSessions ==
  (pc = "idle" /\ ret.op = "Execute" /\ everOK = {}) =>
    /\ ret.val \in {"connfail-noconn", "connfail-ctx"}
    /\ \A h \in Hosts : attempted[h] = {}

\* C10: while Execute waits there is exactly one task per session, and when
\* it has returned no task is running and no result is emitted until the next
\* call.
C10_ExecuteJoinsAllTasks ==
  /\ [](pc = "execWait" => \A h \in Hosts : (task[h] # "none") <=> (h \in Clients))
  /\ [](pc = "idle" => Active = {})
  /\ [][(pc = "idle" /\ pc' = "idle") => emitted' = emitted]_vars

\* Execute has returned after one task succeeded and another failed
C10_Witness ==
  /\ pc = "idle" /\ ret.op = "Execute"
  /\ \E h, g \in Hosts : task[h] = "ok" /\ attempted[h] # {} /\ task[g] = "err"

\* C11: an Execute that has run its tasks returns a non-nil error iff a task
\* of that call failed, and the error is that of the first task failure of the
\* call; it returns nil when every task succeeded.
C11_ExecuteReturnsFirstFailure ==
  (pc = "idle" /\ ret.op = "Execute" /\ ret.val \notin {"connfail-noconn", "connfail-ctx"}) =>
    /\ ret.val # "nil" <=> \E h \in Hosts : task[h] \in {"err", "cancel"}
    /\ ret.val = firstFail.err
    /\ firstFail # NoErr => gErr = firstFail

\* C12: a task that comes to its next command with the context cancelled
\* returns the cancellation error, emitting no Start result and executing
\* nothing; a task ended that way has not started the command it was at nor
\* any later one.
C12_NoCommandAfterCancel ==
  /\ [](\A h \in Hosts : task[h] = "cancel" =>
          /\ \A a \in attempted[h] : a.k < idx[h]
          /\ \A i \in DOMAIN emitted[h] : emitted[h][i].k < idx[h]
          /\ firstFail # NoErr)
  /\ [][\A h \in Hosts :
         (cancelled /\ task[h] = "ready" /\ idx[h] <= ncmd[h] /\ task'[h] # "ready") =>
            /\ task'[h] = "cancel"
            /\ emitted'[h] = emitted[h]
            /\ attempted'[h] = attempted[h]]_vars

\* a task was cancelled after it had run its first command, with commands left
C12_Witness ==
  \E h \in Hosts :
    /\ task[h] = "cancel" /\ idx[h] > 1 /\ idx[h] <= ncmd[h]
    /\ \E a \in attempted[h] : a.k = idx[h] - 1

\* C13: an ExecRemoteCommand that returns from its select while the remote
\* command is still running does so because the context is done: it has sent
\* the kill signal and returns the context's own error with empty output,
\* whatever had been captured; the cancellation branch never returns anything
\* else.
C13_CancelKillsAndReturnsCtxErr ==
  /\ []((cpc = "done" /\ cret.via = "ctx") =>
          /\ ctxDone /\ killSent
          /\ cret.out = 0 /\ cret.err = "ctx")
  /\ [][(cpc = "select" /\ gpc = "run" /\ cpc' # "select") =>
          /\ ctxDone /\ killSent'
          /\ cpc' = "done" /\ cret'.out = 0 /\ cret'.err = "ctx"]_vars

\* the context was cancelled while the command ran with output captured
C13_Witness ==
  /\ cpc = "done" /\ cret.via = "ctx" /\ cret.running
  /\ captured > 0 /\ gpc = "run"

\* the Start and Finish results of a host, in the order they were emitted
TaskLog(h) == SelectSeq(emitted[h], LAMBDA e : e.stage \in {"Start", "Finish"})

\* C14: the results of one host's task are Start 1, Finish 1, Start 2,
\* Finish 2, ... in that order: a command starts only after the one before it
\* has finished, and at most one is running.
C14_CommandsInListOrder ==
  \A h \in Hosts :
    /\ \A j \in DOMAIN TaskLog(h) :
         /\ TaskLog(h)[j].k = (j + 1) \div 2
         /\ TaskLog(h)[j].stage = IF j % 2 = 1 THEN "Start" ELSE "Finish"
    /\ task[h] = "running" <=> Len(TaskLog(h)) % 2 = 1

\* two hosts' tasks interleave: one runs its second command while the other
\* still runs its first
C14_Witness ==
  \E h, g \in Hosts :
    /\ task[h] = "running" /\ idx[h] = 2
    /\ task[g] = "running" /\ idx[g] = 1

\* C15: no session is ever dropped from the session map while still open: a
\* host id has at most one live session.
C15_AtMostOneLiveSession ==
  \A h \in Hosts : leaked[h] = 0

\* C16: when Close has returned it has called Close on every session of the
\* map, whether or not an earlier one failed, and it has returned an error
\* exactly when the Close of a session failed: the join of those errors.
C16_CloseJoinsSessionErrors ==
  closePc = "done" =>
    /\ closeTried = Clients
    /\ closeRet # "nil" <=> closeErrs # {}
    /\ closeRet # "nil" => closeRet = "close"

\* C17: a Close of an engine whose map holds no session, or only sessions
\* that never dialled, returns nil and leaves the map as it was, the first
\* time and when called again.
C17_CloseWithoutSessionsIsNoOp ==
  (closePc = "done" /\ \A h \in Hosts : sess[h] \in {"none", "unconnected"}) =>
    /\ closeRet = "nil"
    /\ closeErrs = {}
    /\ leftOpen = {}

\* Close has returned for the second time on an engine holding a session
\* that never dialled
C17_Witness ==
  /\ closePc = "done" /\ closeCalls = 2
  /\ \E h \in Hosts : sess[h] = "unconnected" /\ h \in closeTried

\* C18: the handler list is the handlers passed to RegisterHandler, call
\* after call in the order the calls took effect, repeats included: whenever
\* no call is inside its append the list equals that record, and it only ever
\* grows at its end.
C18_RegisterHandlerOnlyAppends ==
  /\ [](muW = 0 => hlist = regLog)
  /\ [](Len(hlist) <= Len(regLog) /\ hlist = SubSeq(regLog, 1, Len(hlist)))
  /\ [][Len(hlist') >= Len(hlist) /\ hlist = SubSeq(hlist', 1, Len(hlist))]_vars

\* calls have returned leaving a handler in the list twice, while another
\* call, passing that handler again, waits for the lock
C18_Witness ==
  /\ muW = 0
  /\ \E i, j \in DOMAIN hlist : i # j /\ hlist[i] = hlist[j]
  /\ \E p \in Regs :
       /\ rpc[p] = "lock" /\ rarg[p] # <<>>
       /\ \E i \in DOMAIN hlist : hlist[i] = rarg[p][1]

\* C19: a result passed to notifyHandlers is delivered, by the notifying task
\* and before that task goes on, to every handler registered when the task
\* took the read lock: once each, in registration order.
C19_NotifySynchronousInOrder ==
  /\ npc = "done" => delivered = nsnap
  /\ npc = "iter" => delivered = SubSeq(nsnap, 1, nidx - 1)

\* C20: a RegisterCommand given the empty name or a nil function returns an
\* error, and a RegisterCommand that returns an error leaves the registry as
\* it was: no entry added, removed or replaced.
C20_RegisterCommandRejects ==
  rcRet # "none" =>
    /\ (rcName = <<>> \/ rcFn = "nil") => rcRet # "nil"
    /\ rcRet # "nil" => commands = rcPrev

\* a registration was refused after another had been accepted
C20_Witness ==
  /\ rcCalls = 2 /\ rcRet = "empty-name" /\ rcFn # "nil"
  /\ commands # Builtin /\ commands = rcPrev

\* the name with the namespace in front, for a name given with or without it
Prefixed(name) == IF name # <<>> /\ Head(name) = Prefix THEN name ELSE <<Prefix>> \o name

\* C21: after a RegisterCommand(name, h) that returned nil, GetCommand on the
\* prefixed name returns h and true, whether name carried the prefix or not;
\* the registry has one entry for that name and every other entry is as it
\* was, so a second registration of a name replaces the first.
C21_RegisterThenGet ==
  (rcRet = "nil") =>
    /\ GetCommand(Prefixed(rcName)) = <<rcFn, TRUE>>
    /\ ListCommands = DOMAIN rcPrev \cup {Prefixed(rcName)}
    /\ \A n \in DOMAIN rcPrev : n # Prefixed(rcName) => commands[n] = rcPrev[n]
    /\ Prefixed(rcName) \in DOMAIN rcPrev =>
         Cardinality(ListCommands) = Cardinality(DOMAIN rcPrev)

\* a name registered with one function, given with the prefix, has been
\* registered again with another, given without it
C21_Witness ==
  /\ rcCalls = 2 /\ rcRet = "nil" /\ rcName = <<"x">>
  /\ <<Prefix, "x">> \in DOMAIN rcPrev
  /\ rcPrev[<<Prefix, "x">>] \in {"f", "g"} \ {rcFn}
  /\ commands[<<Prefix, "x">>] = rcFn

\* C22: every name in the registry, that is every name ListCommands returns,
\* begins with "remex.".
C22_NamesCarryPrefix ==
  \A n \in ListCommands : n # <<>> /\ Head(n) = Prefix

\* names given without the prefix, one of them the bare name of a built-in
\* command, have been registered
C22_Witness ==
  /\ rcCalls = 2 /\ rcRet = "nil" /\ rcName = <<"upload">>
  /\ Cardinality(ListCommands) = Cardinality(DOMAIN Builtin) + 1

\* C23: a dispatch (ExecRemexCommand on a connection) of a name the registry
\* does not hold returns the unknown-command error naming it, with no output
\* and without any command function having been called; when the command
\* function returned an error, the dispatch returns that error wrapped with
\* the command name, and no output even if the function produced some.
C23_UnknownAndFailedDispatch ==
  (dpc = "done" /\ client = "ok" /\ dEntry # "ExecRemoteCommand" /\ dRoute # "shell") =>
    LET name == CommandSplit(dText)[1]
    IN /\ name \notin ListCommands =>
            /\ dRet = DispRet(0, "unknown", name, "none")
            /\ dInvoked = <<>>
       /\ dOut.err \notin {"none", "nil"} =>
            /\ dRet.err = "failed" /\ dRet.name = name /\ dRet.cause = dOut.err
            /\ dRet.out = 0

\* a registered command was dispatched with an argument and its function
\* returned output together with an error
C23_Witness ==
  /\ dpc = "done" /\ client = "ok" /\ dEntry = "ExecuteCommand"
  /\ dText = <<Prefix, "x", Space>> \o <<"upload">>
  /\ dInvoked = <<[fn |-> "f", args |-> << <<"upload">> >>]>>
  /\ dOut = [out |-> 1, err |-> "herr"]
  /\ dRet.err = "failed"

\* C24: once SSHClient.ExecuteCommand on a connected session is past its
\* branch, the text went to the registry dispatch exactly when it begins with
\* "remex."; any other text was handed, as it is, to ExecRemoteCommand and no
\* registry lookup or command function call was made for it.  On a session
\* that is not connected the call returns the not-connected error and nothing
\* was looked up, called or run.
C24_RoutesByPrefix ==
  (dEntry = "ExecuteCommand" /\ dpc # "route") =>
    IF client = "nil"
      THEN /\ dpc = "done" /\ dRet = DispRet(0, "not-connected", <<>>, "none")
           /\ dRoute = "none" /\ dLooked = {} /\ dInvoked = <<>>
           /\ dShell = <<>> /\ cpc = "off" /\ gpc = "none"
      ELSE /\ dRoute = (IF dText # <<>> /\ Head(dText) = Prefix THEN "remex" ELSE "shell")
           /\ dRoute = "shell" => dLooked = {} /\ dInvoked = <<>> /\ dShell = <<dText>>
           /\ dRoute = "remex" => dShell = <<>> /\ cpc = "off" /\ gpc = "none"

\* the name of a registered command, with a space in front of it, was run as
\* a remote shell command and returned
C24_Witness ==
  /\ dEntry = "ExecuteCommand" /\ dpc = "done" /\ client = "ok"
  /\ dText = <<Space, Prefix, "x">> /\ <<Prefix, "x">> \in ListCommands
  /\ dRoute = "shell" /\ dRet.err = "nil" /\ dRet.out > 0

\* C25: called without a connection, ExecRemexCommand and ExecRemoteCommand
\* return the client-is-nil error and no output, whatever the command text
\* and whether or not the context is done; no name is looked up, no command
\* function is called, and no session, goroutine or signal is made.
C25_NilClientFailsFirst ==
  (client = "nil" /\ dEntry \in {"ExecRemexCommand", "ExecRemoteCommand"}) =>
    /\ dLooked = {} /\ dInvoked = <<>> /\ dOut = NoOutcome
    /\ gpc = "none" /\ ~killSent /\ ~sessClosed /\ captured = 0
    /\ dEntry = "ExecRemexCommand" =>
         /\ dpc \in {"remex", "done"} /\ cpc = "off"
         /\ dpc = "done" => dRet = DispRet(0, "client-nil", <<>>, "none")
    /\ dEntry = "ExecRemoteCommand" =>
         /\ cpc \in {"entry", "done"}
         /\ cpc = "done" => cret = [via |-> "nil", out |-> 0, err |-> "client-nil",
                                    running |-> FALSE]

\* ExecRemexCommand has returned for the name of a built-in command, called
\* without a connection and with a context that was done
C25_Witness ==
  /\ client = "nil" /\ dEntry = "ExecRemexCommand" /\ ctxDone
  /\ dText = <<Prefix, "upload">> /\ dpc = "done" /\ dRet.err = "client-nil"

\* C26: when ExecRemoteCommand returns through the completion of the remote
\* command, it returns everything CombinedOutput captured; with the wrapped
\* error when the command ended with a non-zero status, with no error when it
\* ended with status zero.
C26_OutputReturnedWithExitError ==
  (cpc = "done" /\ cret.via = "errCh") =>
    /\ cret.out = captured
    /\ exitErr = "exit" => cret.err = "wrapped-exit"
    /\ exitErr = "nil" => cret.err = "nil"
    /\ exitErr \in {"nil", "exit"}

\* a command that wrote output and then failed has returned, with no
\* cancellation
C26_Witness ==
  /\ cpc = "done" /\ ~ctxDone /\ exitErr = "exit" /\ captured = MaxOut
  /\ cret.err = "wrapped-exit" /\ cret.out = MaxOut

\* C27: a Read called when the context is already done returns 0 bytes and
\* the context's error, and the source was neither read nor advanced; a Read
\* that returns while the context is not done returns exactly what the
\* source's Read returned, bytes included; and the context's error is only
\* ever returned for a context that is done.
C27_ReadChecksContextFirst ==
  (irPc = "ret") =>
    /\ irAtCall.ctx =>
         /\ irRet = [n |-> 0, err |-> "ctx", data |-> <<>>]
         /\ irUnder = NoRead /\ irPos = irAtCall.pos
    /\ ~irCtx =>
         /\ irUnder # NoRead
         /\ irRet.n = irUnder.n /\ irRet.err = irUnder.err
         /\ irRet.data = SubSeq(irSrc, irAtCall.pos + 1, irAtCall.pos + irUnder.n)
         /\ irPos = irAtCall.pos + irUnder.n
    /\ irRet.err = "ctx" => irCtx /\ irUnder = NoRead /\ irPos = irAtCall.pos

\* a Read returned bytes, the context was cancelled, and the next Read
\* returned the context's error with the source where the first Read left it
C27_Witness ==
  /\ irPc = "ret" /\ irReads = 2 /\ irAtCall.ctx
  /\ irAtCall.pos > 0 /\ irAtCall.pos < Len(irSrc)
  /\ irRet.err = "ctx" /\ irPos = irAtCall.pos

\* the result of the command that returned last
LastReturned == tLog[Len(tLog)]

\* C28 as stated: once an upload or download whose copy step failed has
\* returned, its target (the remote file, the local file) does not exist.
C28_NoPartialTargetAfterFailure ==
  (tpc = "idle" /\ tLog # <<>> /\ LastReturned.err = "copy") =>
    TargetOf(LastReturned.op) = Absent

\* C28 as amended: an upload or download whose copy step failed (a read
\* error, a write error, the cancellation) has called the removal of its
\* target before it returned, returns the copy error and no byte count, and
\* its target does not exist unless that removal failed.
C28_FailedCopyRemovesTarget ==
  (tpc = "idle" /\ tLog # <<>> /\ LastReturned.err = "copy") =>
    /\ LastReturned.removed \in {"ok", "failed"}
    /\ LastReturned.cause \in {"ctx", "ioerr", "werr"}
    /\ LastReturned.n = 0
    /\ LastReturned.removed = "ok" => TargetOf(LastReturned.op) = Absent

\* an upload over an existing remote file failed on the cancellation, and the
\* remote file is gone
C28_Witness ==
  /\ tpc = "idle" /\ tLog # <<>> /\ tOps = 1
  /\ LastReturned = Returned("upload", "copy", "ctx", 0, "ok")
  /\ tRemote = Absent /\ tLocal = Stale /\ Len(tSrc) = MaxBytes

\* C29: when an upload that returned without error is followed by a download
\* that returned without error, the downloaded local file holds the bytes of
\* the uploaded file, as many and the same, and both commands report that
\* byte count; whatever was at the two target paths before.
C29_UploadDownloadRoundTrip ==
  (tpc = "idle" /\ Len(tLog) >= 2
     /\ tLog[Len(tLog) - 1].op = "upload" /\ tLog[Len(tLog) - 1].err = "nil"
     /\ LastReturned.op = "download" /\ LastReturned.err = "nil") =>
    /\ tLocal = tSrc
    /\ Len(tLocal) = Len(tSrc)
    /\ tRemote = tSrc
    /\ tLog[Len(tLog) - 1].n = Len(tSrc) /\ LastReturned.n = Len(tSrc)

\* a file of the greatest length went up and came down, over an older file
\* at each target path
C29_Witness ==
  /\ tpc = "idle" /\ Len(tLog) = 2
  /\ tLog[1].op = "upload" /\ tLog[1].err = "nil"
  /\ tLog[2].op = "download" /\ tLog[2].err = "nil"
  /\ Len(tSrc) = MaxBytes /\ tSrc[1] # tSrc[2] /\ tLocal = tSrc

\* C30: a call of GetConnectedHosts returns one entry for each session that
\* is in r.clients at the call, and no other; a call of GetClientByID(id)
\* returns the session stored for id and true, or nothing and false when
\* there is none; neither call changes the sessions or the handlers; and what
\* a call returned is not changed by what the engine does afterwards.
C30_QueriesAreReadOnlySnapshots ==
  /\ [][qCalls' # qCalls =>
          /\ sess' = sess /\ leaked' = leaked /\ handlers' = handlers
          /\ qKind' = "hosts" =>
               /\ qRet'.hosts = {h \in Hosts : sess[h] # "none"}
               /\ Cardinality(qRet'.hosts) = Cardinality({h \in Hosts : sess[h] # "none"})
          /\ qKind' = "byid" =>
               IF sess[qArg'] = "none"
                 THEN ~qRet'.found /\ qRet'.client = NoClient
                 ELSE qRet'.found /\ qRet'.client = [host |-> qArg', state |-> sess[qArg']]]_vars
  /\ [][qCalls' = qCalls => qRet' = qRet]_vars

\* a snapshot taken when one session was stored still has one entry after a
\* second session was stored and Close closed both
C30_Witness ==
  /\ qKind = "hosts" /\ Cardinality(qRet.hosts) = 1
  /\ \A h \in Hosts : sess[h] = "closed"

\* C31: when remex.mkdir is run twice in a row with the same path and the
\* first run succeeded, the second run (given an SFTP client) succeeds too and
\* leaves the remote file system as the first run left it
C31_MkdirIdempotent ==
  \A i \in 1..Len(mLog) - 1 :
    (/\ mLog[i].err = "nil"
     /\ mLog[i + 1].args = mLog[i].args
     /\ mLog[i + 1].conn)
      => /\ mLog[i + 1].err = "nil"
         /\ mLog[i + 1].dirs = mLog[i].dirs
         /\ mLog[i + 1].files = mLog[i].files
         /\ Prefixes(mLog[i].args[1]) \subseteq mLog[i].dirs

\* mkdir a/b ran twice and succeeded twice, the first run having made the
\* directory
C31_Witness ==
  /\ Len(mLog) = 2
  /\ mLog[1].err = "nil" /\ mLog[2].err = "nil"
  /\ mLog[1].args = mLog[2].args
  /\ Len(mLog[1].args[1]) = 2
  /\ mLog[1].args[1] \notin mLog[1].before
  /\ mLog[2].dirs = mLog[1].dirs

\* C32: when Connect comes to its next host with the context cancelled, it
\* does not dial that host or any later one: it returns the context's error
C32_ConnectStopsWhenCancelled ==
  [][(pc = "connCheck" /\ todo # {} /\ cancelled /\ pc' # pc)
       => /\ pc' = "idle"
          /\ ret'.val = (IF inExec THEN "connfail-ctx" ELSE "ctx")
          /\ lastDial' = lastDial
          /\ sess' = sess]_vars

\* a Connect over two hosts dialled one of them, was cancelled, and returned
\* the context's error without dialling the other
C32_Witness ==
  /\ pc = "idle"
  /\ ret.op = "Connect" /\ ret.val = "ctx"
  /\ configs = Hosts
  /\ Cardinality({h \in Hosts : lastDial[h] # "none"}) = 1

\* goroutine p is about to read or write obj
Accessing(p, obj) ==
  /\ p \in DOMAIN aOp
  /\ Running(p)
  /\ AtStep(p).k \in {"read", "write"}
  /\ AtStep(p).obj = obj

\* C33: every read of r.clients and of r.handlers is made holding the read
\* or the write lock and every write holding the write lock, so that no two
\* operations are at the same time about to access one of them, one writing
C33_AccessesUnderLock ==
  /\ \A p \in DOMAIN aOp : \A obj \in {"clients", "handlers"} :
       Accessing(p, obj) =>
         IF AtStep(p).k = "write" THEN aW = p ELSE (aW = p \/ p \in aR)
  /\ \A p, q \in DOMAIN aOp : \A obj \in {"clients", "handlers"} :
       (p # q /\ Accessing(p, obj) /\ Accessing(q, obj))
         => (AtStep(p).k = "read" /\ AtStep(q).k = "read")

\* C34: while the handler of one host's task does not return, the task of
\* another host that has a result to notify is let into notifyHandlers,
\* whatever else is called on the engine
C34_BlockedHandlerStallsOneHost ==
  \A h, k \in DOMAIN sEv :
    (h # k /\ sPc[h] = "blocked" /\ sPc[k] = "rlock") => RLockFree

\* goroutine h waits for r.mutex inside a handler, for a lock that cannot be
\* granted before its own notification returns
WaitsOnItself(h) ==
  /\ sR[h] > 0
  /\ \/ sPc[h] = "lock"
     \/ sPc[h] = "qrlock" /\ sWait # {}

\* C37: a handler that calls RegisterHandler or GetConnectedHosts while it is
\* notified never waits for a lock that its own notification keeps taken
C37_HandlerCallbackNeverDeadlocks ==
  \A h \in DOMAIN sEv : ~WaitsOnItself(h)

\* C36: once ExecRemoteCommand has returned, its goroutine is not left at a
\* channel send that no receive will ever match
C36_GoroutineNotStranded ==
  ~(cpc = "done" /\ gpc \in {"sendErr", "sendOut"})

\* the words of a text: its pieces between runs of spaces
Words(text) == SelectSeq(Split(text), LAMBDA w : w # <<>>)

\* C35: the command function is called with the words that follow the
\* command name in the text, one argument per word and no empty argument
C35_SplitsOnWhitespace ==
  \A i \in DOMAIN dInvoked :
    /\ dInvoked[i].args = Tail(Words(dText))
    /\ \A j \in DOMAIN dInvoked[i].args : dInvoked[i].args[j] # <<>>

\* C38: unless Close was called or a task has failed, no task of an Execute
\* is aborted as cancelled: an Execute that follows an Execute that returned
\* nil runs its commands
C38_LaterExecuteStillRuns ==
  [][\A h \in Hosts :
       (task[h] = "ready" /\ task'[h] = "cancel")
         => (closeCalls > 0 \/ gErr # NoErr)]_vars

\* the list with every placeholder replaced by id
WithId(l, id) ==
  [i \in DOMAIN l |->
     [j \in DOMAIN l[i] |-> IF l[i][j] = Placeholder THEN id ELSE l[i][j]]]

\* a list of one command or more, none with a line break in it
PlainList(l) ==
  /\ l # <<>>
  /\ \A i \in DOMAIN l : \A j \in DOMAIN l[i] : l[i][j] # NewLine

\* C39: in the Execute that substitutes the placeholder, the task of every
\* host runs the command list passed to Execute with each placeholder
\* replaced by that host's own id
C39_PlaceholderIsOwnId ==
  \A h \in xRan :
    (rev = "RA" /\ PlainList(xOrig)) => xTask[h] = WithId(xOrig, HostId(h))

\* the sessions r.clients retains
Retained == {kMap.m[n] : n \in DOMAIN kMap.m}

\* C40: with configs built by NewRemoteConfig for distinct addresses, every
\* config dialled with success keeps its own session, and once Execute has
\* started its tasks each of these sessions runs the commands of its config
C40_SessionAndCommandsPerConfig ==
  kBuilt = "NewRemoteConfig" =>
    /\ kPc # "panic"
    /\ kPc \in {"connect", "spawn", "done"} => kDialled \subseteq Retained
    /\ (kPc = "done" /\ kRet = "nil") =>
         \A i \in DOMAIN kConfigs :
           kConfigs[i].addr \in kDialled =>
             [addr |-> kConfigs[i].addr, cmds |-> kConfigs[i].cmds] \in kRun

====
